---- MODULE Spec2Model ----
(***************************************************************************)
(* Crawl orchestration of the price-comparison backend: the in-memory      *)
(* CrawlStatusService (crawl_status_service.py), the admin trigger and its *)
(* background task (admin-api/routers/admin.py) and CrawlerService         *)
(* (crawler_service.py) on top of the repositories of database_service.py. *)
(* Time is counted in minutes.  An optional value (Python None or a value) *)
(* is a sequence of length 0 or 1.                                         *)
(***************************************************************************)
EXTENDS Integers, Sequences, FiniteSets, TLC

VARIABLES
    active_crawls,        \* CrawlStatusService._active_crawls: crawl_id -> CrawlProgress
    completed_crawls,     \* CrawlStatusService._completed_crawls: list of CrawlProgress
    last_crawl_attempts,  \* CrawlStatusService._last_crawl_attempts: store_name -> time
    now,                  \* datetime.utcnow()
    next_id,              \* the next fresh uuid4
    ret,                  \* what the last tracker call returned or raised
    tasks,                \* the background tasks _enhanced_trigger_crawl, by crawl_id
    db_stores,            \* committed rows of table stores
    db_sessions,          \* committed rows of table crawl_sessions
    db_products           \* committed rows of table products

tracker_vars == <<active_crawls, completed_crawls, last_crawl_attempts>>
system_vars == <<tasks, db_stores, db_sessions, db_products>>
vars == <<active_crawls, completed_crawls, last_crawl_attempts, now, next_id, ret,
          tasks, db_stores, db_sessions, db_products>>

----------------------------------------------------------------------------
(* Bounds of the model *)

MaxJobs == 2          \* crawl ids handed out in the tracker specification
MaxClock == 5         \* the clock stops advancing here
HistoryWarmup == 49   \* crawls run one after the other before the history fills up
MaxCancels == 1       \* crawls the operator cancels while background tasks run
MaxPriceLen == 4      \* characters of a price text a page shows
MaxContainers == 3    \* product containers of a page
MaxBatch == 3         \* products of a batch handed to _deduplicate_products
MaxFragments == 2     \* pieces an availability text is put together from
MaxStoreId == 3       \* ids the rows of table stores have before a crawl
MaxHeight == 2        \* page heights, in scroll steps, a page reports while it is scrolled
MaxLimit == 3         \* the largest limit get_crawl_history is asked with

(* Program constants *)

max_completed_history == 50
min_crawl_interval == 5
max_scrolls == 50     \* _scroll_down_thoroughly: scroll steps at most

None == << >>
Some(v) == <<v>>

\* Function f with the key k set to v (dict assignment).
SetKey(f, k, v) == [x \in DOMAIN f \cup {k} |-> IF x = k THEN v ELSE f[x]]

\* Function f without the key k (del f[k]).
DelKey(f, k) == [x \in DOMAIN f \ {k} |-> f[x]]

Min2(a, b) == IF a < b THEN a ELSE b
Max2(a, b) == IF a > b THEN a ELSE b

PENDING == "pending"
INITIALIZING == "initializing"
CRAWLING == "crawling"
PROCESSING == "processing"
COMPLETED == "completed"
FAILED == "failed"
CANCELLED == "cancelled"

CrawlStatus == {PENDING, INITIALIZING, CRAWLING, PROCESSING, COMPLETED, FAILED, CANCELLED}
TerminalStatus == {COMPLETED, FAILED, CANCELLED}

StoreNames == {"Lidl", "Aldi"}

----------------------------------------------------------------------------
(* CrawlStatusService *)

\* A new CrawlProgress as start_crawl builds it.
CrawlProgress(crawl_id, store_name, t) ==
    [ crawl_id |-> crawl_id,
      store_name |-> store_name,
      status |-> PENDING,
      crawl_type |-> "manual",
      started_at |-> t,
      completed_at |-> None,
      progress_percentage |-> 0,
      current_step |-> "Initializing",
      products_found |-> 0,
      products_processed |-> 0,
      errors_count |-> 0,
      estimated_completion |-> None,
      postal_code |-> "10115",
      triggered_by |-> "admin",
      error_details |-> None,
      session_id |-> None ]

\* _is_rate_limited(store_name) with the attempts lca at time t.
is_rate_limited(lca, store_name, t) ==
    IF store_name \notin DOMAIN lca
    THEN FALSE
    ELSE t - lca[store_name] < min_crawl_interval

\* The loop of start_crawl over the active crawls.
is_already_crawled(ac, store_name) ==
    \E id \in DOMAIN ac :
        /\ ac[id].store_name = store_name
        /\ ac[id].status \in {CRAWLING, PROCESSING}

\* A history that keeps its first entries instead of its last ones.
TrimHistoryKeepOldest(cc) ==
    IF Len(cc) > max_completed_history
    THEN SubSeq(cc, 1, max_completed_history)
    ELSE cc

\* complete_crawl, "Maintain history size": the last max_completed_history entries.
TrimHistory(cc) ==
    IF Len(cc) > max_completed_history
    THEN SubSeq(cc, Len(cc) - max_completed_history + 1, Len(cc))
    ELSE cc

\* The body of update_crawl_progress storing the percentage as it is passed.
ApplyUpdate_unclamped(crawl, args) ==
    [ crawl EXCEPT
        !.status = IF "status" \in DOMAIN args THEN args.status ELSE @,
        !.current_step =
            IF "current_step" \in DOMAIN args /\ args.current_step # ""
            THEN args.current_step ELSE @,
        !.progress_percentage =
            IF "progress_percentage" \in DOMAIN args
            THEN args.progress_percentage ELSE @,
        !.products_found =
            IF "products_found" \in DOMAIN args THEN args.products_found ELSE @,
        !.products_processed =
            IF "products_processed" \in DOMAIN args THEN args.products_processed ELSE @,
        !.errors_count =
            IF "errors_count" \in DOMAIN args THEN args.errors_count ELSE @,
        !.estimated_completion =
            IF "estimated_completion" \in DOMAIN args
            THEN Some(args.estimated_completion) ELSE @ ]

\* The body of update_crawl_progress on one CrawlProgress; args holds the
\* keyword arguments that were passed (an absent key is None).
ApplyUpdate(crawl, args) ==
    [ crawl EXCEPT
        !.status = IF "status" \in DOMAIN args THEN args.status ELSE @,
        !.current_step =
            IF "current_step" \in DOMAIN args /\ args.current_step # ""
            THEN args.current_step ELSE @,
        !.progress_percentage =
            IF "progress_percentage" \in DOMAIN args
            THEN Min2(100, Max2(0, args.progress_percentage)) ELSE @,
        !.products_found =
            IF "products_found" \in DOMAIN args THEN args.products_found ELSE @,
        !.products_processed =
            IF "products_processed" \in DOMAIN args THEN args.products_processed ELSE @,
        !.errors_count =
            IF "errors_count" \in DOMAIN args THEN args.errors_count ELSE @,
        !.estimated_completion =
            IF "estimated_completion" \in DOMAIN args
            THEN Some(args.estimated_completion) ELSE @ ]

\* update_crawl_progress that revives a crawl id it does not find.
update_crawl_progress_unchecked(ac, crawl_id, args) ==
    IF crawl_id \notin DOMAIN ac
    THEN SetKey(ac, crawl_id, ApplyUpdate(CrawlProgress(crawl_id, "", 0), args))
    ELSE [ac EXCEPT ![crawl_id] = ApplyUpdate(@, args)]

\* update_crawl_progress: the active crawls afterwards.
update_crawl_progress(ac, crawl_id, args) ==
    IF crawl_id \notin DOMAIN ac
    THEN ac
    ELSE [ac EXCEPT ![crawl_id] = ApplyUpdate(@, args)]

\* complete_crawl that moves the CrawlProgress to the history with the
\* percentage at 0.
Finished_clears_progress(crawl, status, final_products_count, error_details, t) ==
    [ crawl EXCEPT
        !.status = status,
        !.completed_at = Some(t),
        !.progress_percentage = 0,
        !.current_step = "Completed",
        !.products_processed =
            IF final_products_count # None THEN final_products_count[1] ELSE @,
        !.error_details =
            IF error_details # None /\ error_details[1] # ""
            THEN error_details ELSE @ ]

\* complete_crawl that moves the CrawlProgress to the history with the status
\* it has.
Finished_keeps_status(crawl, status, final_products_count, error_details, t) ==
    [ crawl EXCEPT
        !.completed_at = Some(t),
        !.progress_percentage = 100,
        !.current_step = "Completed",
        !.products_processed =
            IF final_products_count # None THEN final_products_count[1] ELSE @,
        !.error_details =
            IF error_details # None /\ error_details[1] # ""
            THEN error_details ELSE @ ]

\* complete_crawl: the CrawlProgress as it is moved to the history.
Finished(crawl, status, final_products_count, error_details, t) ==
    [ crawl EXCEPT
        !.status = status,
        !.completed_at = Some(t),
        !.progress_percentage = 100,
        !.current_step = "Completed",
        !.products_processed =
            IF final_products_count # None THEN final_products_count[1] ELSE @,
        !.error_details =
            IF error_details # None /\ error_details[1] # ""
            THEN error_details ELSE @ ]

\* complete_crawl without "del self._active_crawls[crawl_id]".
complete_crawl_keep_active(ac, cc, crawl_id, status, final_products_count, error_details, t) ==
    IF crawl_id \notin DOMAIN ac
    THEN [active |-> ac, completed |-> cc, ok |-> FALSE]
    ELSE [ active |-> ac,
           completed |-> TrimHistory(Append(cc,
               Finished(ac[crawl_id], status, final_products_count, error_details, t))),
           ok |-> TRUE ]

\* complete_crawl: the active crawls and the history afterwards.
complete_crawl(ac, cc, crawl_id, status, final_products_count, error_details, t) ==
    IF crawl_id \notin DOMAIN ac
    THEN [active |-> ac, completed |-> cc, ok |-> FALSE]
    ELSE [ active |-> DelKey(ac, crawl_id),
           completed |-> TrimHistory(Append(cc,
               Finished(ac[crawl_id], status, final_products_count, error_details, t))),
           ok |-> TRUE ]

\* cancel_crawl that completes the crawl as FAILED.
cancel_crawl_as_failed(ac, cc, crawl_id, reason, t) ==
    IF crawl_id \notin DOMAIN ac
    THEN [active |-> ac, completed |-> cc, ok |-> FALSE]
    ELSE [ complete_crawl(ac, cc, crawl_id, FAILED, None, Some(reason), t)
             EXCEPT !.ok = TRUE ]

\* cancel_crawl: False for a crawl that is not active, else complete_crawl as CANCELLED.
cancel_crawl(ac, cc, crawl_id, reason, t) ==
    IF crawl_id \notin DOMAIN ac
    THEN [active |-> ac, completed |-> cc, ok |-> FALSE]
    ELSE [ complete_crawl(ac, cc, crawl_id, CANCELLED, None, Some(reason), t)
             EXCEPT !.ok = TRUE ]

\* get_crawl_status: the CrawlProgress of crawl_id, active first, then history.
get_crawl_status(ac, cc, crawl_id) ==
    IF crawl_id \in DOMAIN ac
    THEN Some(ac[crawl_id])
    ELSE IF \E i \in DOMAIN cc : cc[i].crawl_id = crawl_id
         THEN Some(cc[CHOOSE i \in DOMAIN cc :
                        /\ cc[i].crawl_id = crawl_id
                        /\ \A j \in DOMAIN cc : cc[j].crawl_id = crawl_id => i <= j])
         ELSE None

\* What a tracker call hands back to its caller.
Ret(op, crawl_id, store_name, ok, error, next_allowed) ==
    [ op |-> op, crawl_id |-> crawl_id, store_name |-> store_name, ok |-> ok,
      error |-> error, next_allowed |-> next_allowed ]

----------------------------------------------------------------------------
(* The calls of the tracker's interface, as steps *)

\* The keyword arguments the callers of update_crawl_progress pass.
UpdateInputs ==
    { [status |-> INITIALIZING, current_step |-> "Initializing crawl session"],
      [status |-> CRAWLING, current_step |-> "Starting product crawl",
       progress_percentage |-> 10],
      [status |-> PROCESSING, current_step |-> "Processing and deduplicating products",
       progress_percentage |-> 60] }

\* The arguments the callers of complete_crawl pass.
CompleteInputs ==
    { [status |-> COMPLETED, final_products_count |-> Some(2), error_details |-> None],
      [status |-> FAILED, final_products_count |-> None,
       error_details |-> Some("Some stores failed")] }

CancelReasons == {"Manual cancellation"}

\* Crawl ids a caller may hold: every id handed out so far, and one that never was.
KnownIds == 0 .. (next_id - 1)

\* start_crawl without the write of _last_crawl_attempts.
start_crawl_no_window(store_name) ==
    IF is_rate_limited(last_crawl_attempts, store_name, now)
    THEN /\ ret' = Ret("start_crawl", None, store_name, FALSE, "rate_limited",
                       Some(last_crawl_attempts[store_name] + min_crawl_interval))
         /\ UNCHANGED <<active_crawls, last_crawl_attempts, next_id>>
    ELSE IF is_already_crawled(active_crawls, store_name)
    THEN /\ ret' = Ret("start_crawl", None, store_name, FALSE, "already_running", None)
         /\ UNCHANGED <<active_crawls, last_crawl_attempts, next_id>>
    ELSE /\ active_crawls' = SetKey(active_crawls, next_id,
                                    CrawlProgress(next_id, store_name, now))
         /\ UNCHANGED last_crawl_attempts
         /\ next_id' = next_id + 1
         /\ ret' = Ret("start_crawl", Some(next_id), store_name, TRUE, "", None)

\* start_crawl with the two checks in the other order.
start_crawl_running_first(store_name) ==
    IF is_already_crawled(active_crawls, store_name)
    THEN /\ ret' = Ret("start_crawl", None, store_name, FALSE, "already_running", None)
         /\ UNCHANGED <<active_crawls, last_crawl_attempts, next_id>>
    ELSE IF is_rate_limited(last_crawl_attempts, store_name, now)
    THEN /\ ret' = Ret("start_crawl", None, store_name, FALSE, "rate_limited",
                       Some(last_crawl_attempts[store_name] + min_crawl_interval))
         /\ UNCHANGED <<active_crawls, last_crawl_attempts, next_id>>
    ELSE /\ active_crawls' = SetKey(active_crawls, next_id,
                                    CrawlProgress(next_id, store_name, now))
         /\ last_crawl_attempts' = SetKey(last_crawl_attempts, store_name, now)
         /\ next_id' = next_id + 1
         /\ ret' = Ret("start_crawl", Some(next_id), store_name, TRUE, "", None)

\* start_crawl that notes the time of the attempt before it looks for a
\* running crawl of the store.
start_crawl_stamps_attempt(store_name) ==
    IF is_rate_limited(last_crawl_attempts, store_name, now)
    THEN /\ ret' = Ret("start_crawl", None, store_name, FALSE, "rate_limited",
                       Some(last_crawl_attempts[store_name] + min_crawl_interval))
         /\ UNCHANGED <<active_crawls, last_crawl_attempts, next_id>>
    ELSE IF is_already_crawled(active_crawls, store_name)
    THEN /\ ret' = Ret("start_crawl", None, store_name, FALSE, "already_running", None)
         /\ last_crawl_attempts' = SetKey(last_crawl_attempts, store_name, now)
         /\ UNCHANGED <<active_crawls, next_id>>
    ELSE /\ active_crawls' = SetKey(active_crawls, next_id,
                                    CrawlProgress(next_id, store_name, now))
         /\ last_crawl_attempts' = SetKey(last_crawl_attempts, store_name, now)
         /\ next_id' = next_id + 1
         /\ ret' = Ret("start_crawl", Some(next_id), store_name, TRUE, "", None)

\* start_crawl: the two ValueErrors, else a PENDING crawl and the attempt's time.
start_crawl(store_name) ==
    IF is_rate_limited(last_crawl_attempts, store_name, now)
    THEN /\ ret' = Ret("start_crawl", None, store_name, FALSE, "rate_limited",
                       Some(last_crawl_attempts[store_name] + min_crawl_interval))
         /\ UNCHANGED <<active_crawls, last_crawl_attempts, next_id>>
    ELSE IF is_already_crawled(active_crawls, store_name)
    THEN /\ ret' = Ret("start_crawl", None, store_name, FALSE, "already_running", None)
         /\ UNCHANGED <<active_crawls, last_crawl_attempts, next_id>>
    ELSE /\ active_crawls' = SetKey(active_crawls, next_id,
                                    CrawlProgress(next_id, store_name, now))
         /\ last_crawl_attempts' = SetKey(last_crawl_attempts, store_name, now)
         /\ next_id' = next_id + 1
         /\ ret' = Ret("start_crawl", Some(next_id), store_name, TRUE, "", None)

StartCrawl(store_name) ==
    /\ next_id <= MaxJobs
         \/ is_rate_limited(last_crawl_attempts, store_name, now)
         \/ is_already_crawled(active_crawls, store_name)
    /\ start_crawl(store_name)
    /\ UNCHANGED <<completed_crawls, now, system_vars>>

UpdateProgress(crawl_id, args) ==
    /\ active_crawls' = update_crawl_progress(active_crawls, crawl_id, args)
    /\ ret' = Ret("update_crawl_progress", Some(crawl_id), "",
                  crawl_id \in DOMAIN active_crawls, "", None)
    /\ UNCHANGED <<completed_crawls, last_crawl_attempts, now, next_id, system_vars>>

Complete(crawl_id, a) ==
    LET r == complete_crawl(active_crawls, completed_crawls, crawl_id, a.status,
                            a.final_products_count, a.error_details, now)
    IN  /\ active_crawls' = r.active
        /\ completed_crawls' = r.completed
        /\ ret' = Ret("complete_crawl", Some(crawl_id), "", r.ok, "", None)
        /\ UNCHANGED <<last_crawl_attempts, now, next_id, system_vars>>

Cancel(crawl_id, reason) ==
    LET r == cancel_crawl(active_crawls, completed_crawls, crawl_id, reason, now)
    IN  /\ active_crawls' = r.active
        /\ completed_crawls' = r.completed
        /\ ret' = Ret("cancel_crawl", Some(crawl_id), "", r.ok, "", None)
        /\ UNCHANGED <<last_crawl_attempts, now, next_id, system_vars>>

\* The clock is read at the instants the rate limiter tells apart: the start of
\* a window of min_crawl_interval, its last minute and its end.
TickStep(t) == IF t % min_crawl_interval = 0 THEN min_crawl_interval - 1 ELSE 1

\* Time passes.
Tick ==
    /\ now + TickStep(now) <= MaxClock
    /\ now' = now + TickStep(now)
    /\ UNCHANGED <<tracker_vars, next_id, ret, system_vars>>

InitTracker ==
    /\ active_crawls = << >>
    /\ completed_crawls = << >>
    /\ last_crawl_attempts = << >>
    /\ now = 0
    /\ next_id = 1
    /\ ret = Ret("none", None, "", TRUE, "", None)
    /\ tasks = << >>
    /\ db_stores = {}
    /\ db_sessions = {}
    /\ db_products = {}

NextTracker ==
    \/ \E s \in StoreNames : StartCrawl(s)
    \/ \E id \in KnownIds, args \in UpdateInputs : UpdateProgress(id, args)
    \/ \E id \in KnownIds, a \in CompleteInputs : Complete(id, a)
    \/ \E id \in KnownIds, reason \in CancelReasons : Cancel(id, reason)
    \/ Tick

SpecTracker == InitTracker /\ [][NextTracker]_vars

----------------------------------------------------------------------------
(* Properties of the tracker *)

\* Every CrawlProgress the tracker holds, active or in the history.
AllCrawls ==
    {active_crawls[id] : id \in DOMAIN active_crawls}
        \cup {completed_crawls[i] : i \in DOMAIN completed_crawls}

HistoryIds == {completed_crawls[i].crawl_id : i \in DOMAIN completed_crawls}

ActiveOf(store_name) ==
    {id \in DOMAIN active_crawls : active_crawls[id].store_name = store_name}

\* C1: in every reachable state of the tracker the active set holds at most
\* one crawl per store name.
C1_OneActivePerStore ==
    \A a, b \in DOMAIN active_crawls :
        a # b => active_crawls[a].store_name # active_crawls[b].store_name

\* C2 as claimed: a start_crawl on a store that has an active crawl is
\* answered AlreadyRunning, from the first repetition until that crawl ends.
C2_SecondStartAlreadyRunning ==
    [][\A s \in StoreNames :
          (StartCrawl(s) /\ ActiveOf(s) # {}) => ret'.error = "already_running"]_vars

\* A crawl of the store was started less than min_crawl_interval ago.
StartedRecently(store_name) ==
    \E c \in AllCrawls :
        c.store_name = store_name /\ now - c.started_at < min_crawl_interval

\* C2 as amended: a start_crawl on a store that has an active crawl is answered
\* RateLimited while a crawl of that store was started less than
\* min_crawl_interval ago (in particular when it repeats the first call at
\* once), and AlreadyRunning afterwards while a crawl of the store is CRAWLING
\* or PROCESSING; a rejected call starts nothing.
C2_SecondStartRejected ==
    [][\A s \in StoreNames :
          (StartCrawl(s) /\ ActiveOf(s) # {}) =>
              /\ StartedRecently(s) => ret'.error = "rate_limited"
              /\ (~StartedRecently(s) /\ is_already_crawled(active_crawls, s))
                     => ret'.error = "already_running"
              /\ ~ret'.ok => UNCHANGED active_crawls]_vars

\* C2, its case: the first crawl is still active and the call repeated at the
\* same instant was answered RateLimited.
C2_Witness ==
    /\ ret.op = "start_crawl"
    /\ ret.error = "rate_limited"
    /\ \E id \in ActiveOf(ret.store_name) : active_crawls[id].started_at = now

\* C3: a start_crawl for a store less than min_crawl_interval after a
\* successful start for it at t is answered RateLimited with next allowed time
\* t + min_crawl_interval, whether the crawl started at t is still active or
\* already completed, failed or cancelled.
C3_RateLimitedFromStart ==
    [][\A s \in StoreNames :
          StartCrawl(s) =>
              \A c \in AllCrawls :
                  (c.store_name = s /\ now - c.started_at < min_crawl_interval) =>
                      /\ ~ret'.ok
                      /\ ret'.error = "rate_limited"
                      /\ ret'.next_allowed = Some(c.started_at + min_crawl_interval)
                      /\ UNCHANGED tracker_vars]_vars

\* C3, its case: a start was answered RateLimited after the crawl that opened
\* the window had ended, one minute before the window's end.
C3_Witness ==
    /\ ret.op = "start_crawl"
    /\ ret.error = "rate_limited"
    /\ \E i \in DOMAIN completed_crawls :
          /\ completed_crawls[i].store_name = ret.store_name
          /\ ret.next_allowed = Some(completed_crawls[i].started_at + min_crawl_interval)
          /\ now = completed_crawls[i].started_at + min_crawl_interval - 1

\* C4: a complete_crawl for a crawl that is already in the history returns
\* False and changes nothing in the tracker, and no crawl id is in the history
\* twice.
C4_CompleteIdempotent ==
    /\ [](\A i, j \in DOMAIN completed_crawls :
             completed_crawls[i].crawl_id = completed_crawls[j].crawl_id => i = j)
    /\ [][\A id \in KnownIds, a \in CompleteInputs :
             (Complete(id, a) /\ id \in HistoryIds) =>
                 ~ret'.ok /\ UNCHANGED tracker_vars]_vars

\* C4, its case: complete_crawl was called for a crawl in the history.
C4_Witness ==
    /\ ret.op = "complete_crawl"
    /\ ~ret.ok
    /\ ret.crawl_id[1] \in HistoryIds

\* C5: a crawl that has ended (COMPLETED, FAILED or CANCELLED) is reported
\* with the same fields after every later call of the tracker.
C5_TerminalIsSink ==
    [][\A i \in DOMAIN completed_crawls :
          /\ completed_crawls[i].status \in TerminalStatus
          /\ get_crawl_status(active_crawls', completed_crawls',
                              completed_crawls[i].crawl_id) = Some(completed_crawls[i])]_vars

\* C5, its case: an update, a completion or a cancellation was tried on a
\* crawl that had ended.
C5_Witness ==
    /\ ret.op \in {"update_crawl_progress", "cancel_crawl"}
    /\ ~ret.ok
    /\ ret.crawl_id[1] \in HistoryIds

\* C8: cancel_crawl of an active crawl returns True and moves the crawl to the
\* history as complete_crawl(crawl_id, CANCELLED, error_details=reason) does:
\* status CANCELLED, completed now, 100 percent, step "Completed", the reason
\* as error detail, every other field as it was; cancel_crawl of any other
\* crawl id returns False and changes nothing in the tracker.
C8_CancelIsCompleteCancelled ==
    [][\A id \in KnownIds, reason \in CancelReasons :
          Cancel(id, reason) =>
              IF id \in DOMAIN active_crawls
              THEN /\ ret'.ok
                   /\ active_crawls' = DelKey(active_crawls, id)
                   /\ completed_crawls' = TrimHistory(Append(completed_crawls,
                          [ active_crawls[id] EXCEPT
                              !.status = CANCELLED,
                              !.completed_at = Some(now),
                              !.progress_percentage = 100,
                              !.current_step = "Completed",
                              !.error_details = Some(reason) ]))
                   /\ UNCHANGED last_crawl_attempts
              ELSE ~ret'.ok /\ UNCHANGED tracker_vars]_vars

\* C8, its case: an active crawl was cancelled.
C8_Witness ==
    /\ ret.op = "cancel_crawl"
    /\ ret.ok
    /\ \E i \in DOMAIN completed_crawls :
          /\ completed_crawls[i].crawl_id = ret.crawl_id[1]
          /\ completed_crawls[i].status = CANCELLED

----------------------------------------------------------------------------
(* A long run of the tracker: HistoryWarmup crawls of one store are started,
   completed at once and followed by a pause of min_crawl_interval; after
   them MaxJobs more crawls are started, completed and cancelled freely. *)

WarmupDone == next_id > HistoryWarmup /\ DOMAIN active_crawls \cap (1 .. HistoryWarmup) = {}

HistoryStart(store_name) ==
    /\ IF next_id <= HistoryWarmup
       THEN store_name = "Lidl" /\ active_crawls = << >>
       ELSE \/ next_id <= HistoryWarmup + MaxJobs
            \/ is_rate_limited(last_crawl_attempts, store_name, now)
            \/ is_already_crawled(active_crawls, store_name)
    /\ start_crawl(store_name)
    /\ UNCHANGED <<completed_crawls, now, system_vars>>

HistoryComplete(crawl_id, a) ==
    /\ crawl_id \in DOMAIN active_crawls
    /\ crawl_id <= HistoryWarmup => a.status = COMPLETED
    /\ Complete(crawl_id, a)

HistoryCancel(crawl_id, reason) ==
    /\ crawl_id \in DOMAIN active_crawls
    /\ crawl_id > HistoryWarmup
    /\ Cancel(crawl_id, reason)

HistoryTick ==
    /\ ~WarmupDone => /\ active_crawls = << >>
                       /\ is_rate_limited(last_crawl_attempts, "Lidl", now)
    /\ now + TickStep(now) <= min_crawl_interval * (HistoryWarmup - 1) + MaxClock
    /\ now' = now + TickStep(now)
    /\ UNCHANGED <<tracker_vars, next_id, ret, system_vars>>

NextHistory ==
    \/ \E s \in StoreNames : HistoryStart(s)
    \/ \E id \in DOMAIN active_crawls, a \in CompleteInputs : HistoryComplete(id, a)
    \/ \E id \in DOMAIN active_crawls, reason \in CancelReasons : HistoryCancel(id, reason)
    \/ HistoryTick

SpecHistory == InitTracker /\ [][NextHistory]_vars

\* C7: the history never holds more than max_completed_history crawls, and a
\* crawl that ends is appended as the newest entry while the entries before it
\* are the newest of the old history in their old order: beyond the capacity
\* the oldest entries are the ones that go.
C7_HistoryKeepsNewest ==
    /\ [](Len(completed_crawls) <= max_completed_history)
    /\ [][\A id \in DOMAIN active_crawls :
             id \notin DOMAIN active_crawls' =>
                 LET n == Len(completed_crawls')
                     gone == Len(completed_crawls) + 1 - n
                 IN  /\ n = Min2(Len(completed_crawls) + 1, max_completed_history)
                     /\ completed_crawls'[n].crawl_id = id
                     /\ \A k \in 1 .. (n - 1) :
                            completed_crawls'[k] = completed_crawls[gone + k]]_vars

\* C7, its case: the history is full and its oldest entries have been evicted.
C7_Witness ==
    /\ Len(completed_crawls) = max_completed_history
    /\ completed_crawls[1].crawl_id > 1
    /\ completed_crawls[max_completed_history].crawl_id > max_completed_history

----------------------------------------------------------------------------
(* The catalog: repositories of database_service.py *)

\* timedelta(days=7) in minutes.
SevenDays == 10080

\* Rows of table stores: id, name, enabled.  The table has no unique
\* constraint on name.
StoreRow(id, name) == [id |-> id, name |-> name, enabled |-> TRUE]

\* Rows of table products as far as the crawl reads and writes them.
ProductRow(id, store_id, name, created_at, crawl_session_id) ==
    [ id |-> id, store_id |-> store_id, name |-> name, created_at |-> created_at,
      deleted_at |-> None, crawl_session_id |-> crawl_session_id ]

\* Rows of table crawl_sessions.
SessionRow(id, store_id) ==
    [ id |-> id, store_id |-> store_id, status |-> "running",
      total_products |-> 0, success_count |-> 0, error_count |-> 0, notes |-> "" ]

\* The next value of an autoincrement primary key.
NextKey(rows) ==
    IF rows = {} THEN 1
    ELSE 1 + (CHOOSE k \in {r.id : r \in rows} : \A r \in rows : r.id <= k)

\* The parameters StoreRepository.create accepts besides self.
StoreCreateParams == {"name", "logo_url", "base_url"}

\* CrawlerService.store_metadata.
store_metadata ==
    [ Lidl |-> [name |-> "Lidl", base_url |-> "https://www.lidl.de",
                logo_url |-> "https://www.lidl.de/favicon.ico", enabled |-> TRUE],
      Aldi |-> [name |-> "Aldi", base_url |-> "https://www.aldi-sued.de",
                logo_url |-> "https://www.aldi-sued.de/favicon.ico", enabled |-> TRUE] ]

\* StoreRepository.get_by_name on the committed rows: scalar_one_or_none.
get_by_name(stores, name) ==
    LET found == {r \in stores : r.name = name}
    IN  IF found = {} THEN [ok |-> TRUE, row |-> None, error |-> ""]
        ELSE IF Cardinality(found) = 1
        THEN [ok |-> TRUE, row |-> Some(CHOOSE r \in found : TRUE), error |-> ""]
        ELSE [ok |-> FALSE, row |-> None, error |-> "MultipleResultsFound"]

\* StoreRepository.create called with the keyword arguments kwargs: a call
\* with a keyword the method does not have raises TypeError before any row is
\* built; otherwise the row is added and flushed.
StoreRepository_create(stores, kwargs) ==
    IF ~(DOMAIN kwargs \subseteq StoreCreateParams)
    THEN [ok |-> FALSE, row |-> None, stores |-> stores,
          error |-> "create() got an unexpected keyword argument"]
    ELSE LET row == StoreRow(NextKey(stores), kwargs.name)
         IN  [ok |-> TRUE, row |-> Some(row), stores |-> stores \cup {row}, error |-> ""]

\* The test of _ensure_store_exists on the text of the exception.
is_unique_constraint_error(error) ==
    error \in {"unique constraint", "duplicate key", "integrity constraint",
               "violates unique constraint", "duplicate entry"}

\* _ensure_store_exists that looks the store up before it asks for a crawler.
ensure_store_exists_lookup_first(stores, store_name) ==
    LET first == get_by_name(stores, store_name)
    IN  IF ~first.ok
        THEN [ok |-> FALSE, row |-> None, stores |-> stores, error |-> first.error]
        ELSE IF first.row # None
        THEN [ok |-> TRUE, row |-> first.row, stores |-> stores, error |-> ""]
        ELSE IF store_name \notin StoreNames
        THEN [ok |-> FALSE, row |-> None, stores |-> stores,
              error |-> "No metadata available for store"]
        ELSE LET created == StoreRepository_create(stores, store_metadata[store_name])
             IN  IF created.ok THEN created
                 ELSE [ok |-> FALSE, row |-> None, stores |-> stores,
                       error |-> created.error]

\* _ensure_store_exists that logs the error of the insert and returns the
\* store it has, which is none.
ensure_store_exists_swallows_error(stores, store_name) ==
    IF store_name \notin StoreNames
    THEN [ok |-> FALSE, row |-> None, stores |-> stores,
          error |-> "No crawler available for store"]
    ELSE LET first == get_by_name(stores, store_name)
         IN  IF ~first.ok
             THEN [ok |-> FALSE, row |-> None, stores |-> stores, error |-> first.error]
             ELSE IF first.row # None
             THEN [ok |-> TRUE, row |-> first.row, stores |-> stores, error |-> ""]
             ELSE LET created == StoreRepository_create(stores, store_metadata[store_name])
                  IN  IF created.ok
                      THEN created
                      ELSE [ok |-> TRUE, row |-> None, stores |-> stores, error |-> ""]

\* _ensure_store_exists(store_name) on the committed rows.
ensure_store_exists(stores, store_name) ==
    IF store_name \notin StoreNames
    THEN [ok |-> FALSE, row |-> None, stores |-> stores,
          error |-> "No crawler available for store"]
    ELSE LET first == get_by_name(stores, store_name)
         IN  IF ~first.ok
             THEN [ok |-> FALSE, row |-> None, stores |-> stores, error |-> first.error]
             ELSE IF first.row # None
             THEN [ok |-> TRUE, row |-> first.row, stores |-> stores, error |-> ""]
             ELSE LET created == StoreRepository_create(stores, store_metadata[store_name])
                  IN  IF created.ok
                      THEN created
                      ELSE IF is_unique_constraint_error(created.error)
                      THEN LET again == get_by_name(stores, store_name)
                           IN  IF again.ok /\ again.row # None
                               THEN [ok |-> TRUE, row |-> again.row, stores |-> stores,
                                     error |-> ""]
                               ELSE [ok |-> FALSE, row |-> None, stores |-> stores,
                                     error |-> created.error]
                      ELSE [ok |-> FALSE, row |-> None, stores |-> stores,
                            error |-> created.error]

\* ProductRepository.soft_delete_old_products: the ids of the rows it marks.
soft_delete_old_products(products, store_id, cutoff_date) ==
    { r.id : r \in { q \in products : /\ q.store_id = store_id
                                      /\ q.created_at < cutoff_date
                                      /\ q.deleted_at = None } }

----------------------------------------------------------------------------
(* CrawlerService: products *)

\* The fields of the pydantic model ProductResult.
ProductResultFields ==
    { "name", "price", "store", "store_logo_url", "product_url", "image_url",
      "availability", "unit", "category", "brand", "description", "price_per_unit",
      "origin", "discount", "quality_info", "partner_program", "available_until",
      "reward_program_hint" }

\* The attributes of a product that _convert_product_to_db_format reads.
ConvertReads ==
    { "price", "category", "name", "description", "brand", "availability", "unit",
      "availability_text", "offer_valid_until", "image_url", "product_url" }

\* A ProductResult as a crawler builds it; price is in cents.
ProductResult(name, store, price, description, image_url) ==
    [ name |-> name, store |-> store, price |-> price, description |-> description,
      image_url |-> image_url ]

\* name.lower().strip() on the product names of the model.
LowerStrip(name) ==
    CASE name = "Milch" -> "milch"
      [] name = " milch " -> "milch"
      [] name = "Brot" -> "brot"
      [] OTHER -> name

\* store.lower() on the store names.
Lower(store) ==
    CASE store = "Lidl" -> "lidl"
      [] store = "Aldi" -> "aldi"
      [] store = "LIDL" -> "lidl"
      [] OTHER -> store

\* The key of _deduplicate_products; a price of None or 0 is falsy.
DedupKey(product) ==
    << LowerStrip(product.name),
       Lower(product.store),
       IF product.price # None /\ product.price[1] # 0
       THEN ToString(product.price[1]) ELSE "no_price" >>

\* Python truthiness of an optional string.
Present(v) == v # None /\ v[1] # ""

RECURSIVE DedupFrom(_, _, _)
\* The loop of _deduplicate_products over products, with the dict
\* seen_products (key -> product) and the list unique_products so far.
DedupFrom(products, seen_products, unique_products) ==
    IF products = << >>
    THEN unique_products
    ELSE LET product == Head(products)
             key == DedupKey(product)
         IN  IF key \notin DOMAIN seen_products
             THEN DedupFrom(Tail(products), SetKey(seen_products, key, product),
                            Append(unique_products, product))
             ELSE LET existing == seen_products[key]
                  IN  IF \/ Present(product.description) /\ ~Present(existing.description)
                         \/ Present(product.image_url) /\ ~Present(existing.image_url)
                      THEN DedupFrom(Tail(products), SetKey(seen_products, key, product),
                                     Append(SelectSeq(unique_products,
                                                      LAMBDA q : q # existing), product))
                      ELSE DedupFrom(Tail(products), seen_products, unique_products)

\* _deduplicate_products that never replaces the first record of a key.
deduplicate_products_first_wins(products) ==
    LET firsts == SelectSeq([i \in DOMAIN products |-> i],
                            LAMBDA i : \A j \in 1 .. (i - 1) :
                                          DedupKey(products[j]) # DedupKey(products[i]))
    IN  [k \in DOMAIN firsts |-> products[firsts[k]]]

\* _deduplicate_products.
deduplicate_products(products) == DedupFrom(products, << >>, << >>)

\* _convert_product_to_db_format: reading an attribute that ProductResult does
\* not have raises AttributeError; otherwise the dict for bulk_create.
convert_product_to_db_format(product, store_id) ==
    IF ~(ConvertReads \subseteq ProductResultFields)
    THEN [ok |-> FALSE, data |-> None]
    ELSE [ok |-> TRUE, data |-> Some([name |-> product.name, store_id |-> store_id])]

RECURSIVE ConvertFrom(_, _, _, _, _)
\* The conversion loop of crawl_store from index idx (0-based) on: the list
\* product_data_list, the two counters and the active crawls afterwards.
ConvertFrom(unique_products, idx, store_id, crawl_id, acc) ==
    IF idx >= Len(unique_products)
    THEN acc
    ELSE LET c == convert_product_to_db_format(unique_products[idx + 1], store_id)
         IN  IF c.ok
             THEN LET list == Append(acc.product_data_list, c.data[1])
                  IN  ConvertFrom(unique_products, idx + 1, store_id, crawl_id,
                        [ product_data_list |-> list,
                          success_count |-> acc.success_count + 1,
                          error_count |-> acc.error_count,
                          active |->
                            IF idx % 20 = 0
                            THEN update_crawl_progress(acc.active, crawl_id,
                                   [ current_step |-> "Converting products",
                                     progress_percentage |->
                                         80 + (idx * 15) \div Len(unique_products),
                                     products_processed |-> Len(list) ])
                            ELSE acc.active ])
             ELSE ConvertFrom(unique_products, idx + 1, store_id, crawl_id,
                        [ product_data_list |-> acc.product_data_list,
                          success_count |-> acc.success_count,
                          error_count |-> acc.error_count + 1,
                          active |-> update_crawl_progress(acc.active, crawl_id,
                                       [errors_count |-> acc.error_count + 1]) ])

----------------------------------------------------------------------------
(* The admin API: trigger_manual_crawl and its background task *)

\* The store_name parameter of POST /crawl/trigger: absent, a store with a
\* crawler, or a store without one.
TriggerStores == {None, Some("Lidl"), Some("Aldi"), Some("Rewe")}

\* What crawl_all_products of a store's crawler hands back: an exception, no
\* products, or three products of which the second repeats the first and
\* carries a description.
HarvestOutcomes(store) ==
    { [raised |-> TRUE, products |-> << >>],
      [raised |-> FALSE, products |-> << >>],
      [raised |-> FALSE, products |->
          << ProductResult("Milch", store, Some(99), None, None),
             ProductResult(" milch ", store, Some(99), Some("1L"), None),
             ProductResult("Brot", store, None, None, None) >>] }

\* The locals of one run of _enhanced_trigger_crawl and of the crawl_store it
\* is in, and the place (pc) where the run is waiting.
Task(store_name) ==
    [ pc |-> "begin",
      store_name |-> store_name,
      names |-> << >>,
      stores |-> << >>,
      idx |-> 0,
      results |-> << >>,
      session_id |-> 0,
      unique_products |-> << >>,
      product_data_list |-> << >>,
      success_count |-> 0,
      error_count |-> 0,
      cutoff_date |-> 0,
      soft_deleted |-> {},
      deleted_at |-> 0,
      error |-> "" ]

\* The name start_crawl is called with.
TrackedName(store_name) == IF store_name = None THEN "all_stores" ELSE store_name[1]

\* get_store_status(store_name)["active_crawl"] is not None.
has_active_crawl(ac, store_name) == \E id \in DOMAIN ac : ac[id].store_name = store_name

\* trigger_manual_crawl: the pre-check of a named store, start_crawl, and the
\* background task.
TriggerCrawl(store_name) ==
    /\ next_id <= MaxJobs
    /\ IF store_name # None /\ is_rate_limited(last_crawl_attempts, store_name[1], now)
       THEN /\ ret' = Ret("trigger_manual_crawl", None, store_name[1], FALSE, "rate_limited",
                          Some(last_crawl_attempts[store_name[1]] + min_crawl_interval))
            /\ UNCHANGED <<active_crawls, last_crawl_attempts, next_id, tasks>>
       ELSE IF store_name # None /\ has_active_crawl(active_crawls, store_name[1])
       THEN /\ ret' = Ret("trigger_manual_crawl", None, store_name[1], FALSE,
                          "already_running", None)
            /\ UNCHANGED <<active_crawls, last_crawl_attempts, next_id, tasks>>
       ELSE /\ start_crawl(TrackedName(store_name))
            /\ tasks' = IF ret'.ok THEN SetKey(tasks, next_id, Task(store_name)) ELSE tasks
    /\ UNCHANGED <<completed_crawls, now, db_stores, db_sessions, db_products>>

\* The task leaves its last await: nothing of its locals is read again.
Done(task) == [Task(task.store_name) EXCEPT !.pc = "done"]

\* The handler "except Exception" of _enhanced_trigger_crawl for crawl_id.
TaskFails(crawl_id, ac, error) ==
    LET r == complete_crawl(ac, completed_crawls, crawl_id, FAILED, None, Some(error), now)
    IN  /\ active_crawls' = r.active
        /\ completed_crawls' = r.completed
        /\ tasks' = [tasks EXCEPT ![crawl_id] = Done(@)]

\* _enhanced_trigger_crawl from its start to the first lookup of a store.
TaskBegin(crawl_id) ==
    LET task == tasks[crawl_id]
        ac == update_crawl_progress(active_crawls, crawl_id,
                  [status |-> INITIALIZING, current_step |-> "Initializing crawl session"])
    IN  /\ task.pc = "begin"
        /\ IF task.store_name # None /\ task.store_name[1] \notin StoreNames
           THEN TaskFails(crawl_id, ac, "No crawler available for store")
           ELSE /\ active_crawls' = ac
                /\ tasks' = [tasks EXCEPT ![crawl_id] =
                      [@ EXCEPT !.pc = "prepare", !.idx = 1,
                                !.names = IF task.store_name # None
                                          THEN <<task.store_name[1]>>
                                          ELSE <<"Lidl", "Aldi">>]]
                /\ UNCHANGED completed_crawls
        /\ UNCHANGED <<last_crawl_attempts, now, next_id, ret,
                       db_stores, db_sessions, db_products>>

\* Where the task goes after the store at task.idx: the next one, or past the loop.
AfterStore(task, next_pc) ==
    LET t == [task EXCEPT !.session_id = 0, !.success_count = 0, !.error_count = 0,
                          !.error = ""]
    IN  IF task.idx < Len(task.stores)
        THEN [t EXCEPT !.pc = next_pc, !.idx = @ + 1]
        ELSE [t EXCEPT !.pc = "finish", !.idx = 0, !.stores = << >>]

\* One "await crawler_service._ensure_store_exists(...)" of the task: the one
\* of a named store, or one round of the loop over crawlers.keys().
PrepareStore(crawl_id) ==
    LET task == tasks[crawl_id]
        r == ensure_store_exists(db_stores, task.names[task.idx])
        stores == IF r.ok THEN Append(task.stores, r.row[1]) ELSE task.stores
    IN  /\ task.pc = "prepare"
        /\ db_stores' = r.stores
        /\ IF ~r.ok /\ task.store_name # None
           THEN TaskFails(crawl_id, active_crawls, r.error)
           ELSE /\ tasks' = [tasks EXCEPT ![crawl_id] =
                      IF task.idx < Len(task.names)
                      THEN [@ EXCEPT !.stores = stores, !.idx = @ + 1]
                      ELSE IF stores = << >>
                      THEN [@ EXCEPT !.pc = "finish", !.idx = 0, !.names = << >>]
                      ELSE [@ EXCEPT !.stores = stores, !.idx = 1, !.names = << >>,
                                     !.pc = "start_store"]]
                /\ UNCHANGED <<active_crawls, completed_crawls>>
        /\ UNCHANGED <<last_crawl_attempts, now, next_id, ret, db_sessions, db_products>>

\* f"Initializing {store_name} crawler"
InitializingStep(store_name) == "Initializing " \o store_name \o " crawler"

\* The loop body of the task up to the first await of crawl_store:
\* crawl_sessions.create, commit, and crawl_store's first progress update.
StartStore(crawl_id) ==
    LET task == tasks[crawl_id]
        store == task.stores[task.idx]
        session == SessionRow(NextKey(db_sessions), store.id)
    IN  /\ task.pc = "start_store"
        /\ db_sessions' = db_sessions \cup {session}
        /\ IF store.name \notin StoreNames
           THEN /\ UNCHANGED active_crawls
                /\ tasks' = [tasks EXCEPT ![crawl_id] =
                       [@ EXCEPT !.pc = "store_failed", !.session_id = session.id,
                                 !.error = "No crawler available for store"]]
           ELSE /\ active_crawls' = update_crawl_progress(active_crawls, crawl_id,
                       [status |-> INITIALIZING,
                        current_step |-> InitializingStep(store.name)])
                /\ tasks' = [tasks EXCEPT ![crawl_id] =
                       [@ EXCEPT !.pc = "cs_lookup", !.session_id = session.id]]
        /\ UNCHANGED <<completed_crawls, last_crawl_attempts, now, next_id, ret,
                       db_stores, db_products>>

\* crawl_store from the answer of _ensure_store_exists to the call of the crawler.
CrawlLookup(crawl_id) ==
    LET task == tasks[crawl_id]
        store == task.stores[task.idx]
        r == ensure_store_exists(db_stores, store.name)
        ac1 == update_crawl_progress(active_crawls, crawl_id,
                   [status |-> CRAWLING, current_step |-> "Starting product crawl",
                    progress_percentage |-> 10])
        ac2 == update_crawl_progress(ac1, crawl_id,
                   [current_step |-> "Crawling ALL products from " \o store.name,
                    progress_percentage |-> 20])
    IN  /\ task.pc = "cs_lookup"
        /\ db_stores' = r.stores
        /\ IF r.ok
           THEN /\ active_crawls' = ac2
                /\ tasks' = [tasks EXCEPT ![crawl_id] = [@ EXCEPT !.pc = "harvest"]]
           ELSE /\ UNCHANGED active_crawls
                /\ tasks' = [tasks EXCEPT ![crawl_id] =
                       [@ EXCEPT !.pc = "store_failed", !.error = r.error]]
        /\ UNCHANGED <<completed_crawls, last_crawl_attempts, now, next_id, ret,
                       db_sessions, db_products>>

\* crawl_store from the crawler's answer to soft_delete_old_products, or to
\* its return when nothing is left after deduplication.
Harvest(crawl_id, outcome) ==
    LET task == tasks[crawl_id]
        error_count == IF outcome.raised THEN 1 ELSE 0
        all_products == outcome.products
        ac1 == IF outcome.raised
               THEN update_crawl_progress(active_crawls, crawl_id,
                        [errors_count |-> error_count])
               ELSE IF all_products # << >>
               THEN update_crawl_progress(active_crawls, crawl_id,
                        [current_step |-> "Successfully crawled "
                             \o ToString(Len(all_products)) \o " products",
                         progress_percentage |-> 60,
                         products_found |-> Len(all_products)])
               ELSE active_crawls
        ac2 == update_crawl_progress(ac1, crawl_id,
                   [status |-> PROCESSING,
                    current_step |-> "Processing and deduplicating products",
                    progress_percentage |-> 60])
        unique_products == deduplicate_products(all_products)
    IN  /\ task.pc = "harvest"
        /\ IF unique_products # << >>
           THEN /\ active_crawls' = update_crawl_progress(ac2, crawl_id,
                       [current_step |-> "Cleaning old products",
                        progress_percentage |-> 70])
                /\ tasks' = [tasks EXCEPT ![crawl_id] =
                       [@ EXCEPT !.pc = "soft_delete", !.error_count = error_count,
                                 !.unique_products = unique_products,
                                 !.cutoff_date = now - SevenDays]]
           ELSE /\ active_crawls' = ac2
                /\ tasks' = [tasks EXCEPT ![crawl_id] =
                       [@ EXCEPT !.pc = "store_done", !.error_count = error_count]]
        /\ UNCHANGED <<completed_crawls, last_crawl_attempts, now, next_id, ret,
                       db_stores, db_sessions, db_products>>

\* crawl_store from the answer of soft_delete_old_products, which marks rows
\* in the task's session, through the conversion loop to bulk_create or commit.
SoftDelete(crawl_id) ==
    LET task == tasks[crawl_id]
        store == task.stores[task.idx]
        marked == soft_delete_old_products(db_products, store.id, task.cutoff_date)
        ac1 == update_crawl_progress(active_crawls, crawl_id,
                   [current_step |-> "Converting products to database format",
                    progress_percentage |-> 80])
        conv == ConvertFrom(task.unique_products, 0, store.id, crawl_id,
                   [ product_data_list |-> << >>, success_count |-> 0,
                     error_count |-> task.error_count, active |-> ac1 ])
    IN  /\ task.pc = "soft_delete"
        /\ active_crawls' =
               IF conv.product_data_list # << >>
               THEN update_crawl_progress(conv.active, crawl_id,
                        [current_step |-> "Saving products to database",
                         progress_percentage |-> 95])
               ELSE conv.active
        /\ tasks' = [tasks EXCEPT ![crawl_id] =
               [@ EXCEPT !.pc = "commit", !.soft_deleted = marked, !.deleted_at = now,
                         !.unique_products = << >>, !.cutoff_date = 0,
                         !.product_data_list = conv.product_data_list,
                         !.success_count = conv.success_count,
                         !.error_count = conv.error_count]]
        /\ UNCHANGED <<completed_crawls, last_crawl_attempts, now, next_id, ret,
                       db_stores, db_sessions, db_products>>

\* The rows bulk_create adds for product_data_list, in list order.
BulkRows(products, product_data_list, crawl_session_id, t) ==
    { ProductRow(NextKey(products) + i - 1, product_data_list[i].store_id,
                 product_data_list[i].name, t, Some(crawl_session_id))
        : i \in DOMAIN product_data_list }

\* The committed products once the task's session is committed: the rows it
\* marked carry deleted_at, the rows it added are there.
Committed(products, task, t) ==
    { IF r.id \in task.soft_deleted THEN [r EXCEPT !.deleted_at = Some(task.deleted_at)]
      ELSE r : r \in products }
        \cup BulkRows(products, task.product_data_list, task.session_id, t)

\* crawl_store from bulk_create and commit to its return; a commit that the
\* database refuses (ok = FALSE) ends in rollback and the exception goes up.
CommitCrawl(crawl_id, ok) ==
    LET task == tasks[crawl_id]
    IN  /\ task.pc = "commit"
        /\ IF ok
           THEN /\ db_products' = Committed(db_products, task, now)
                /\ active_crawls' = update_crawl_progress(active_crawls, crawl_id,
                       [current_step |-> "Crawl completed successfully",
                        progress_percentage |-> 100,
                        products_processed |-> task.success_count])
                /\ tasks' = [tasks EXCEPT ![crawl_id] =
                       [@ EXCEPT !.pc = "store_done", !.soft_deleted = {},
                                 !.deleted_at = 0, !.product_data_list = << >>]]
           ELSE /\ UNCHANGED db_products
                /\ active_crawls' = update_crawl_progress(active_crawls, crawl_id,
                       [current_step |-> "Error: commit failed",
                        errors_count |-> task.error_count + 1])
                /\ tasks' = [tasks EXCEPT ![crawl_id] =
                       [@ EXCEPT !.pc = "store_failed", !.soft_deleted = {},
                                 !.deleted_at = 0, !.product_data_list = << >>,
                                 !.error = "commit failed"]]
        /\ UNCHANGED <<completed_crawls, last_crawl_attempts, now, next_id, ret,
                       db_stores, db_sessions>>

\* The task after crawl_store returned: crawl_sessions.complete, the store's
\* result, commit.
StoreDone(crawl_id) ==
    LET task == tasks[crawl_id]
        store == task.stores[task.idx]
    IN  /\ task.pc = "store_done"
        /\ db_sessions' =
               { IF r.id = task.session_id
                 THEN [r EXCEPT !.status = "completed",
                                !.total_products = task.success_count + task.error_count,
                                !.success_count = task.success_count,
                                !.error_count = task.error_count,
                                !.notes = "Manual crawl triggered"]
                 ELSE r : r \in db_sessions }
        /\ tasks' = [tasks EXCEPT ![crawl_id] =
               AfterStore([@ EXCEPT !.results = Append(@,
                               [store |-> store.name, success |-> TRUE,
                                products_crawled |-> task.success_count,
                                errors |-> task.error_count])],
                          "start_store")]
        /\ UNCHANGED <<tracker_vars, now, next_id, ret, db_stores, db_products>>

\* The task after crawl_store raised: crawl_sessions.fail, the store's
\* result, commit.
StoreFailed(crawl_id) ==
    LET task == tasks[crawl_id]
        store == task.stores[task.idx]
    IN  /\ task.pc = "store_failed"
        /\ db_sessions' =
               { IF r.id = task.session_id
                 THEN [r EXCEPT !.status = "failed",
                                !.notes = "Enhanced crawl error: " \o task.error]
                 ELSE r : r \in db_sessions }
        /\ tasks' = [tasks EXCEPT ![crawl_id] =
               AfterStore([@ EXCEPT !.results = Append(@,
                               [store |-> store.name, success |-> FALSE,
                                products_crawled |-> 0, errors |-> 0])],
                          "start_store")]
        /\ UNCHANGED <<tracker_vars, now, next_id, ret, db_stores, db_products>>

RECURSIVE Totals(_, _)
\* "Process results and update tracking": total_products, total_errors and
\* all_successful over the results from index i on.
Totals(results, i) ==
    IF i > Len(results)
    THEN [total_products |-> 0, total_errors |-> 0, all_successful |-> TRUE]
    ELSE LET rest == Totals(results, i + 1)
         IN  IF results[i].success
             THEN [ total_products |-> rest.total_products + results[i].products_crawled,
                    total_errors |-> rest.total_errors + results[i].errors,
                    all_successful |-> rest.all_successful ]
             ELSE [ total_products |-> rest.total_products,
                    total_errors |-> rest.total_errors + 1,
                    all_successful |-> FALSE ]

\* The end of the task: the results are added up and the crawl is completed.
Finish(crawl_id) ==
    LET task == tasks[crawl_id]
        t == Totals(task.results, 1)
        r == complete_crawl(active_crawls, completed_crawls, crawl_id,
                 IF t.all_successful THEN COMPLETED ELSE FAILED,
                 Some(t.total_products),
                 IF t.all_successful THEN None
                 ELSE Some("Some stores failed. Total errors: " \o ToString(t.total_errors)),
                 now)
    IN  /\ task.pc = "finish"
        /\ active_crawls' = r.active
        /\ completed_crawls' = r.completed
        /\ tasks' = [tasks EXCEPT ![crawl_id] = Done(@)]
        /\ UNCHANGED <<last_crawl_attempts, now, next_id, ret,
                       db_stores, db_sessions, db_products>>

\* DELETE /crawl/{crawl_id} on a crawl that is active.
CancelCrawl(crawl_id, reason) ==
    /\ Cardinality({i \in DOMAIN completed_crawls :
                        completed_crawls[i].status = CANCELLED}) < MaxCancels
    /\ Cancel(crawl_id, reason)

\* The clock of the system is read in steps of min_crawl_interval, and the
\* database answers within the same minute: after the first trigger, time
\* passes while every task is queued, is waiting for a crawler, or has ended.
TickIdle ==
    /\ tasks # << >>
    /\ \A id \in DOMAIN tasks : tasks[id].pc \in {"begin", "harvest", "done"}
    /\ now + min_crawl_interval <= MaxClock
    /\ now' = now + min_crawl_interval
    /\ UNCHANGED <<tracker_vars, next_id, ret, system_vars>>

\* The rows the database holds when the service starts: Lidl, which
\* initialize_stores creates, with or without Aldi; each store has a product
\* older than seven days and a recent one.
InitStores == {{StoreRow(1, "Lidl")}, {StoreRow(1, "Lidl"), StoreRow(2, "Aldi")}}

InitProducts(stores) ==
    UNION { { ProductRow(2 * r.id - 1, r.id, "Butter", 0 - SevenDays - 1, None),
              ProductRow(2 * r.id, r.id, "Eier", 0 - 1, None) } : r \in stores }

Init ==
    /\ active_crawls = << >>
    /\ completed_crawls = << >>
    /\ last_crawl_attempts = << >>
    /\ now = 0
    /\ next_id = 1
    /\ ret = Ret("none", None, "", TRUE, "", None)
    /\ tasks = << >>
    /\ db_stores \in InitStores
    /\ db_sessions = {}
    /\ db_products = InitProducts(db_stores)

Next ==
    \/ \E store_name \in TriggerStores : TriggerCrawl(store_name)
    \/ \E id \in DOMAIN tasks : TaskBegin(id)
    \/ \E id \in DOMAIN tasks : PrepareStore(id)
    \/ \E id \in DOMAIN tasks : StartStore(id)
    \/ \E id \in DOMAIN tasks : CrawlLookup(id)
    \/ \E id \in {i \in DOMAIN tasks : tasks[i].pc = "harvest"} :
          \E outcome \in HarvestOutcomes(tasks[id].stores[tasks[id].idx].name) :
              Harvest(id, outcome)
    \/ \E id \in DOMAIN tasks : SoftDelete(id)
    \/ \E id \in DOMAIN tasks, ok \in BOOLEAN : CommitCrawl(id, ok)
    \/ \E id \in DOMAIN tasks : StoreDone(id)
    \/ \E id \in DOMAIN tasks : StoreFailed(id)
    \/ \E id \in DOMAIN tasks : Finish(id)
    \/ \E id \in DOMAIN active_crawls, reason \in CancelReasons : CancelCrawl(id, reason)
    \/ TickIdle

Spec == Init /\ [][Next]_vars

----------------------------------------------------------------------------
(* Properties of the crawls *)

\* The place of a status in the order PENDING, INITIALIZING, CRAWLING,
\* PROCESSING, terminal.
StatusRank(status) ==
    CASE status = PENDING -> 0
      [] status = INITIALIZING -> 1
      [] status = CRAWLING -> 2
      [] status = PROCESSING -> 3
      [] OTHER -> 4

\* The crawl is in the history as CANCELLED.
IsCancelled(crawl_id) ==
    \E i \in DOMAIN completed_crawls :
        /\ completed_crawls[i].crawl_id = crawl_id
        /\ completed_crawls[i].status = CANCELLED

\* C6: the status the tracker reports for a crawl never moves back in the
\* order INITIALIZING, CRAWLING, PROCESSING, terminal, whether the crawl is of
\* one store or of all stores under one crawl id.
C6_StatusNeverMovesBack ==
    [][\A id \in DOMAIN tasks :
          LET before == get_crawl_status(active_crawls, completed_crawls, id)
              after == get_crawl_status(active_crawls', completed_crawls', id)
          IN  (before # None /\ after # None) =>
                  StatusRank(after[1].status) >= StatusRank(before[1].status)]_vars

\* C9: once a crawl is cancelled, the commit of its crawl_store changes no
\* row of table products: no soft delete and no insert of the cancelled
\* crawl is persisted.
C9_CancelledPersistsNothing ==
    [][\A id \in DOMAIN tasks, ok \in BOOLEAN :
          (IsCancelled(id) /\ CommitCrawl(id, ok)) => UNCHANGED db_products]_vars

\* C10: table stores never holds two rows of one name, and a task whose
\* _ensure_store_exists finds no row of the store's name goes on with a row of
\* that name that the table then holds.
C10_ResolveOrCreateOneRow ==
    /\ [](\A name \in StoreNames : Cardinality({r \in db_stores : r.name = name}) <= 1)
    /\ [][\A id \in DOMAIN tasks :
             (/\ tasks[id].pc = "prepare"
              /\ get_by_name(db_stores, tasks[id].names[tasks[id].idx]).row = None
              /\ PrepareStore(id)) =>
                 \E r \in db_stores' :
                     /\ r.name = tasks[id].names[tasks[id].idx]
                     /\ \E k \in DOMAIN tasks'[id].stores : tasks'[id].stores[k] = r]_vars

\* The rows of table products that bulk_create added for a crawl session.
InsertedBy(products, session_id) ==
    {r \in products : r.crawl_session_id = Some(session_id)}

\* C11: the commit of a crawl makes the soft delete of the store's old rows and
\* the insert of the crawl's new rows visible together or not at all: a commit
\* that changes table products marks every row the crawl aged and adds rows of
\* the crawl's batch.
C11_AgingAndInsertTogether ==
    [][\A id \in DOMAIN tasks, ok \in BOOLEAN :
          CommitCrawl(id, ok) =>
              \/ UNCHANGED db_products
              \/ /\ \A r \in db_products' :
                        r.id \in tasks[id].soft_deleted => r.deleted_at # None
                 /\ InsertedBy(db_products', tasks[id].session_id) # {}]_vars

\* C12: a phase of crawl_store that raises (the harvest, the commit) makes
\* crawl_store raise to the task, which leaves table products as it was, and a
\* crawl with a store that raised ends FAILED with an error detail, never
\* COMPLETED.
C12_ErrorFailsTheCrawl ==
    /\ [][\A id \in {i \in DOMAIN tasks : tasks[i].pc = "harvest"} :
             \A outcome \in HarvestOutcomes(tasks[id].stores[tasks[id].idx].name) :
                 (outcome.raised /\ Harvest(id, outcome)) =>
                     tasks'[id].pc = "store_failed"]_vars
    /\ [][\A id \in DOMAIN tasks :
             CommitCrawl(id, FALSE) =>
                 tasks'[id].pc = "store_failed" /\ UNCHANGED db_products]_vars
    /\ [][\A id \in DOMAIN tasks :
             (Finish(id) /\ \E k \in DOMAIN tasks[id].results :
                                ~tasks[id].results[k].success) =>
                 LET c == get_crawl_status(active_crawls', completed_crawls', id)
                 IN  c # None =>
                         c[1].status = FAILED /\ c[1].error_details # None]_vars

----------------------------------------------------------------------------
(* The crawlers: texts of a page.  A text is the sequence of its characters. *)

Digit == {"0", "1", "2", "3", "4", "5", "6", "7", "8", "9"}

\* int(c) of a digit.
DigitValue(c) ==
    CHOOSE v \in 0 .. 9 : <<"0", "1", "2", "3", "4", "5", "6", "7", "8", "9">>[v + 1] = c

Whitespace == {" "}

RECURSIVE LStrip(_)
LStrip(text) ==
    IF text # << >> /\ Head(text) \in Whitespace THEN LStrip(Tail(text)) ELSE text

RECURSIVE RStrip(_)
RStrip(text) ==
    IF text # << >> /\ text[Len(text)] \in Whitespace
    THEN RStrip(SubSeq(text, 1, Len(text) - 1))
    ELSE text

\* str.strip()
Strip(text) == RStrip(LStrip(text))

\* str.startswith(prefix)
StartsWith(text, prefix) ==
    Len(text) >= Len(prefix) /\ SubSeq(text, 1, Len(prefix)) = prefix

\* text[n:]
Drop(text, n) == SubSeq(text, n + 1, Len(text))

\* re.sub(r'[^\d,.-]', '', text)
KeepPriceChars(text) == SelectSeq(text, LAMBDA c : c \in Digit \cup {",", ".", "-"})

\* The special cases of _parse_price for a leading point or comma.
LeadingPoint(clean_price) ==
    IF StartsWith(clean_price, <<"-", ".">>) /\ Len(clean_price) <= 4
    THEN <<"0">> \o Drop(clean_price, 1)
    ELSE IF StartsWith(clean_price, <<".">>) /\ Len(clean_price) <= 3
    THEN <<"0">> \o clean_price
    ELSE IF StartsWith(clean_price, <<"-", ",">>) /\ Len(clean_price) <= 4
    THEN <<"0", ".">> \o Drop(clean_price, 2)
    ELSE IF StartsWith(clean_price, <<",">>) /\ Len(clean_price) <= 3
    THEN <<"0", ".">> \o Drop(clean_price, 1)
    ELSE clean_price

\* clean_price.replace(',', '.')
CommasToPoints(text) == [i \in DOMAIN text |-> IF text[i] = "," THEN "." ELSE text[i]]

RECURSIVE DigitRun(_, _)
\* The number of digits of text from position j on (\d* at its greediest).
DigitRun(text, j) ==
    IF j <= Len(text) /\ text[j] \in Digit THEN 1 + DigitRun(text, j + 1) ELSE 0

\* The last position of the match of -?\d*\.?\d+ that starts at position i,
\* or 0 if none starts there.
MatchEnd(text, i) ==
    LET j == IF text[i] = "-" THEN i + 1 ELSE i
        a == DigitRun(text, j)
        dot == j + a <= Len(text) /\ text[j + a] = "."
        b == IF dot THEN DigitRun(text, j + a + 1) ELSE 0
    IN  IF b >= 1 THEN j + a + b
        ELSE IF a >= 1 THEN j + a - 1
        ELSE 0

\* re.search(r'(-?\d*\.?\d+)', text).group(1): the leftmost match, or None.
PriceMatch(text) ==
    LET starts == {i \in DOMAIN text : MatchEnd(text, i) # 0}
    IN  IF starts = {} THEN None
        ELSE LET i == CHOOSE k \in starts : \A l \in starts : k <= l
             IN  Some(SubSeq(text, i, MatchEnd(text, i)))

RECURSIVE Pow10(_)
Pow10(n) == IF n = 0 THEN 1 ELSE 10 * Pow10(n - 1)

RECURSIVE DigitsValue(_)
\* The number the digits of text spell, points and sign left out.
DigitsValue(text) ==
    IF text = << >> THEN 0
    ELSE LET c == text[Len(text)]
             rest == DigitsValue(SubSeq(text, 1, Len(text) - 1))
         IN  IF c \in Digit THEN 10 * rest + DigitValue(c) ELSE rest

\* Decimal(price_str) of a match of the pattern: coeff / 10^scale, and its sign.
Decimal(price_str) ==
    LET point == {i \in DOMAIN price_str : price_str[i] = "."}
    IN  [ coeff |-> DigitsValue(price_str),
          scale |-> IF point = {} THEN 0
                    ELSE Len(price_str) - (CHOOSE i \in point : TRUE),
          negative |-> price_str[1] = "-" /\ DigitsValue(price_str) # 0 ]

\* _parse_price of the Lidl and the Aldi crawler: None, or the price as
\* coeff / 10^scale after abs().
parse_price(price_text) ==
    IF price_text = << >>
    THEN None
    ELSE LET clean_price ==
                 CommasToPoints(LeadingPoint(KeepPriceChars(Strip(price_text))))
             price_match == PriceMatch(clean_price)
         IN  IF price_match = None
             THEN None
             ELSE LET price_value == Decimal(price_match[1])
                  IN  Some([coeff |-> price_value.coeff, scale |-> price_value.scale])

----------------------------------------------------------------------------
(* _parse_price on the price texts of a page *)

\* The characters of the price texts: digits, the decimal comma, the minus
\* and the currency sign.
PriceAlphabet == {"0", "1", "5", ",", "-", "€"}

\* The price texts: every text of up to MaxPriceLen characters, and the texts
\* "€-1,50", "999,99", "1000,00", "0,01" and " 1,50 €".
PriceTexts ==
    UNION {[1 .. k -> PriceAlphabet] : k \in 0 .. MaxPriceLen}
        \cup { <<"€", "-", "1", ",", "5", "0">>,
               <<"9", "9", "9", ",", "9", "9">>,
               <<"1", "0", "0", "0", ",", "0", "0">>,
               <<"0", ",", "0", "1">>,
               <<" ", "1", ",", "5", "0", " ", "€">> }

InitPrice ==
    /\ active_crawls = << >>
    /\ completed_crawls = << >>
    /\ last_crawl_attempts = << >>
    /\ now = 0
    /\ next_id = 1
    /\ ret \in {[op |-> "price_text", text |-> t, result |-> None] : t \in PriceTexts}
    /\ tasks = << >>
    /\ db_stores = {}
    /\ db_sessions = {}
    /\ db_products = {}

\* A crawler parses the price text of a container.
ParsePrice ==
    /\ ret.op = "price_text"
    /\ ret' = [ret EXCEPT !.op = "_parse_price", !.result = parse_price(ret.text)]
    /\ UNCHANGED <<tracker_vars, now, next_id, system_vars>>

NextPrice == ParsePrice

SpecPrice == InitPrice /\ [][NextPrice]_vars

\* 0.01 <= price <= 999.99
InPlausibleRange(price) ==
    /\ price.coeff * 100 >= Pow10(price.scale)
    /\ price.coeff * 100 <= 99999 * Pow10(price.scale)

\* C17: _parse_price returns, for every text, None or a value from 0.01 to
\* 999.99; "€-1,50" gives 1.50, and "1000" and the empty text give None.
C17_PriceInPlausibleRange ==
    ret.op = "_parse_price" =>
        /\ ret.result = None \/ InPlausibleRange(ret.result[1])
        /\ ret.text = <<"€", "-", "1", ",", "5", "0">> =>
               ret.result = Some([coeff |-> 150, scale |-> 2])
        /\ ret.text \in {<< >>, <<"1", "0", "0", "0">>} => ret.result = None

----------------------------------------------------------------------------
(* The Lidl crawler on a page of product containers, and a crawl of it *)

RECURSIVE Concat(_)
\* The string of a text.
Concat(text) == IF text = << >> THEN "" ELSE Head(text) \o Concat(Tail(text))

\* A product container: the text of its title element and of its price
\* element, None for an element the container does not have.
Container(title, price_text) == [title |-> title, price_text |-> price_text]

\* The price of a ProductResult, in cents.
Cents(price_value) == (price_value.coeff * 100) \div Pow10(price_value.scale)

\* _extract_single_product: None for a container without a title of two
\* characters or without a price text that _parse_price accepts.
extract_single_product(container) ==
    IF container.title = None
    THEN None
    ELSE LET name == Strip(container.title[1])
         IN  IF name = << >> \/ Len(name) < 2
             THEN None
             ELSE IF container.price_text = None
             THEN None
             ELSE LET price == parse_price(container.price_text[1])
                  IN  IF price = None
                      THEN None
                      ELSE Some(ProductResult(Concat(name), "LIDL",
                                              Some(Cents(price[1])), Some(""), Some("")))

RECURSIVE extract_products_from_page(_)
\* _extract_products_from_page: the products of the containers, in page order.
extract_products_from_page(product_containers) ==
    IF product_containers = << >>
    THEN << >>
    ELSE LET product == extract_single_product(Head(product_containers))
             rest == extract_products_from_page(Tail(product_containers))
         IN  IF product # None THEN <<product[1]>> \o rest ELSE rest

\* The containers of the pages: two products, a container whose price element
\* is missing, one whose price text holds no number, one without a title.
Containers ==
    { Container(Some(<<"M", "i", "l", "c", "h">>), Some(<<"0", ",", "9", "9">>)),
      Container(Some(<<" ", "B", "r", "o", "t">>), Some(<<"1", ",", "4", "9", " ", "€">>)),
      Container(Some(<<"E", "i", "e", "r">>), None),
      Container(Some(<<"Q", "u", "a", "r", "k">>), Some(<<"€">>)),
      Container(None, Some(<<"2", ",", "9", "9">>)) }

\* The pages: up to MaxContainers containers.
Pages == UNION {[1 .. n -> Containers] : n \in 0 .. MaxContainers}

\* crawl_store with the answer of the Lidl crawler for a page.
HarvestPage(crawl_id, page) ==
    Harvest(crawl_id, [raised |-> FALSE, products |-> extract_products_from_page(page)])

NextPage ==
    \/ TriggerCrawl(Some("Lidl"))
    \/ \E id \in DOMAIN tasks : TaskBegin(id)
    \/ \E id \in DOMAIN tasks : PrepareStore(id)
    \/ \E id \in DOMAIN tasks : StartStore(id)
    \/ \E id \in DOMAIN tasks : CrawlLookup(id)
    \/ \E id \in DOMAIN tasks, page \in Pages : HarvestPage(id, page)
    \/ \E id \in DOMAIN tasks : SoftDelete(id)
    \/ \E id \in DOMAIN tasks, ok \in BOOLEAN : CommitCrawl(id, ok)
    \/ \E id \in DOMAIN tasks : StoreDone(id)
    \/ \E id \in DOMAIN tasks : StoreFailed(id)
    \/ \E id \in DOMAIN tasks : Finish(id)

SpecPage == Init /\ [][NextPage]_vars

\* The container has no usable name or no usable price.
Lacking(container) ==
    \/ container.title = None
    \/ Len(Strip(container.title[1])) < 2
    \/ container.price_text = None
    \/ parse_price(container.price_text[1]) = None

\* The containers of the page that lack nothing are pairwise distinct.
PairwiseDistinct(page) ==
    \A i, j \in DOMAIN page :
        (i # j /\ ~Lacking(page[i]) /\ ~Lacking(page[j])) => page[i] # page[j]

\* C13: for a page of n containers of which m lack a usable name or price and
\* the others are pairwise distinct, crawl_store goes on with n - m records,
\* converts each of them (success_count = n - m, error_count = 0), commits
\* n - m rows, and the crawl ends COMPLETED with products_processed = n - m.
C13_CrawlCountsEveryRecord ==
    /\ [][\A id \in DOMAIN tasks, page \in Pages :
             (HarvestPage(id, page) /\ PairwiseDistinct(page)) =>
                 Len(tasks'[id].unique_products) =
                     Len(page) - Cardinality({i \in DOMAIN page : Lacking(page[i])})]_vars
    /\ [][\A id \in DOMAIN tasks :
             SoftDelete(id) =>
                 /\ tasks'[id].success_count = Len(tasks[id].unique_products)
                 /\ tasks'[id].error_count = 0]_vars
    /\ [][\A id \in DOMAIN tasks :
             CommitCrawl(id, TRUE) =>
                 Cardinality(InsertedBy(db_products', tasks[id].session_id))
                     = tasks[id].success_count]_vars
    /\ [][\A id \in DOMAIN tasks :
             (Finish(id) /\ Totals(tasks[id].results, 1).all_successful) =>
                 LET c == get_crawl_status(active_crawls', completed_crawls', id)
                 IN  /\ c # None
                     /\ c[1].status = COMPLETED
                     /\ c[1].products_processed
                            = Totals(tasks[id].results, 1).total_products]_vars

----------------------------------------------------------------------------
(* _deduplicate_products on the batches the crawlers hand over *)

\* The products of a batch.  A crawler hands over no product without a price
\* (_extract_single_product returns None for it); a price text without a
\* positive number gives the price 0; description and image_url are "" when
\* the container has none.
BatchProducts ==
    { ProductResult(name, "LIDL", Some(price), Some(description), Some(image_url)) :
        name \in {"Milch", " milch "}, price \in {0, 99},
        description \in {"", "1L"}, image_url \in {"", "img"} }
        \cup {ProductResult("Brot", "LIDL", Some(149), Some(""), Some(""))}

Batches == UNION {[1 .. n -> BatchProducts] : n \in 0 .. MaxBatch}

InitDedup ==
    /\ active_crawls = << >>
    /\ completed_crawls = << >>
    /\ last_crawl_attempts = << >>
    /\ now = 0
    /\ next_id = 1
    /\ ret \in {[op |-> "batch", products |-> b, result |-> << >>] : b \in Batches}
    /\ tasks = << >>
    /\ db_stores = {}
    /\ db_sessions = {}
    /\ db_products = {}

\* crawl_store deduplicates the batch.
Deduplicate ==
    /\ ret.op = "batch"
    /\ ret' = [ret EXCEPT !.op = "_deduplicate_products",
                          !.result = deduplicate_products(ret.products)]
    /\ UNCHANGED <<tracker_vars, now, next_id, system_vars>>

NextDedup == Deduplicate

SpecDedup == InitDedup /\ [][NextDedup]_vars

\* The identity key of a record: the lowercased trimmed name, the lowercased
\* store name, and the price text, "no_price" for a record without a price.
IdentityKey(product) ==
    << LowerStrip(product.name),
       Lower(product.store),
       IF product.price = None THEN "no_price" ELSE ToString(product.price[1]) >>

\* A duplicate adds a description or an image that the kept record lacks.
AddsDetail(duplicate, kept) ==
    \/ Present(duplicate.description) /\ ~Present(kept.description)
    \/ Present(duplicate.image_url) /\ ~Present(kept.image_url)

RECURSIVE KeptAmong(_, _)
\* The record kept among the records of one key, given the one kept so far.
KeptAmong(kept, duplicates) ==
    IF duplicates = << >>
    THEN kept
    ELSE KeptAmong(IF AddsDetail(Head(duplicates), kept) THEN Head(duplicates) ELSE kept,
                   Tail(duplicates))

\* The record of the batch that is to be kept for the key.
KeptFor(products, key) ==
    LET same == SelectSeq(products, LAMBDA q : IdentityKey(q) = key)
    IN  KeptAmong(Head(same), Tail(same))

\* C14: _deduplicate_products returns exactly one record per identity key of
\* the batch; it is the first record of the key unless a later duplicate adds
\* a description or an image that the record kept so far lacks, which then
\* replaces it; every record returned is a record of the batch.
C14_OneRecordPerKey ==
    ret.op = "_deduplicate_products" =>
        LET keys == {IdentityKey(ret.products[i]) : i \in DOMAIN ret.products}
        IN  /\ \A i \in DOMAIN ret.result :
                  \E j \in DOMAIN ret.products : ret.result[i] = ret.products[j]
            /\ \A key \in keys :
                  \E i \in DOMAIN ret.result :
                      /\ IdentityKey(ret.result[i]) = key
                      /\ ret.result[i] = KeptFor(ret.products, key)
                      /\ \A j \in DOMAIN ret.result :
                             IdentityKey(ret.result[j]) = key => j = i

\* C14, its case: the record returned for a key is not the key's first record
\* in the batch but a later duplicate that carries a description.
C14_Witness ==
    /\ ret.op = "_deduplicate_products"
    /\ \E i \in DOMAIN ret.result :
          LET first == CHOOSE j \in DOMAIN ret.products :
                  /\ IdentityKey(ret.products[j]) = IdentityKey(ret.result[i])
                  /\ \A l \in DOMAIN ret.products :
                         IdentityKey(ret.products[l]) = IdentityKey(ret.result[i]) => j <= l
          IN  /\ ret.result[i] # ret.products[first]
              /\ Present(ret.result[i].description)
              /\ ~Present(ret.products[first].description)

\* store_name values of POST /crawl/trigger that no crawler is registered for.
UnknownStores == {s[1] : s \in {t \in TriggerStores : t # None}} \ StoreNames

\* C15: for a store name without a crawler, _ensure_store_exists fails with
\* "No crawler available for store" and leaves table stores as it is, and a
\* crawl triggered for it ends FAILED with that error at the task's first step,
\* before any lookup, insert or harvest: no row of stores, crawl_sessions or
\* products is written, and table stores never holds a row of such a name.
C15_UnknownStoreFailsFirst ==
    /\ [](\A name \in UnknownStores :
             /\ ensure_store_exists(db_stores, name)
                    = [ok |-> FALSE, row |-> None, stores |-> db_stores,
                       error |-> "No crawler available for store"]
             /\ \A r \in db_stores : r.name # name)
    /\ [][\A id \in DOMAIN tasks :
             (/\ tasks[id].store_name # None
              /\ tasks[id].store_name[1] \in UnknownStores
              /\ TaskBegin(id)) =>
                 LET c == get_crawl_status(active_crawls', completed_crawls', id)
                 IN  /\ UNCHANGED <<db_stores, db_sessions, db_products>>
                     /\ tasks'[id].pc = "done"
                     /\ c # None =>
                            \/ c[1].status = CANCELLED
                            \/ /\ c[1].status = FAILED
                               /\ c[1].error_details
                                      = Some("No crawler available for store")]_vars

\* C15, its case: a crawl was triggered for a store without a crawler and has
\* ended FAILED.
C15_Witness ==
    \E i \in DOMAIN completed_crawls :
        /\ completed_crawls[i].store_name \in UnknownStores
        /\ completed_crawls[i].status = FAILED
        /\ completed_crawls[i].crawl_id \in DOMAIN tasks
        /\ tasks[completed_crawls[i].crawl_id].pc = "done"

----------------------------------------------------------------------------
(* Crawls while a store is disabled *)

\* Table stores with Lidl enabled and Aldi disabled (stores.enabled = false).
DisabledStores == {StoreRow(1, "Lidl"), [StoreRow(2, "Aldi") EXCEPT !.enabled = FALSE]}

InitDisabled ==
    /\ active_crawls = << >>
    /\ completed_crawls = << >>
    /\ last_crawl_attempts = << >>
    /\ now = 0
    /\ next_id = 1
    /\ ret = Ret("none", None, "", TRUE, "", None)
    /\ tasks = << >>
    /\ db_stores = DisabledStores
    /\ db_sessions = {}
    /\ db_products = InitProducts(db_stores)

\* Manual crawls of the disabled store and of all stores.
NextDisabled ==
    \/ \E store_name \in {None, Some("Aldi")} : TriggerCrawl(store_name)
    \/ \E id \in DOMAIN tasks : TaskBegin(id)
    \/ \E id \in DOMAIN tasks : PrepareStore(id)
    \/ \E id \in DOMAIN tasks : StartStore(id)
    \/ \E id \in DOMAIN tasks : CrawlLookup(id)
    \/ \E id \in {i \in DOMAIN tasks : tasks[i].pc = "harvest"} :
          \E outcome \in HarvestOutcomes(tasks[id].stores[tasks[id].idx].name) :
              Harvest(id, outcome)
    \/ \E id \in DOMAIN tasks : SoftDelete(id)
    \/ \E id \in DOMAIN tasks, ok \in BOOLEAN : CommitCrawl(id, ok)
    \/ \E id \in DOMAIN tasks : StoreDone(id)
    \/ \E id \in DOMAIN tasks : StoreFailed(id)
    \/ \E id \in DOMAIN tasks : Finish(id)

SpecDisabled == InitDisabled /\ [][NextDisabled]_vars

\* C16: a store whose row has enabled = false is never crawled: no task
\* opens a crawl session for it, calls crawl_store for it or writes rows of it,
\* whether the crawl is of that store or of all stores.
C16_DisabledStoreNotCrawled ==
    /\ \A id \in DOMAIN tasks :
          tasks[id].pc \in {"start_store", "cs_lookup", "harvest", "soft_delete",
                            "commit", "store_done", "store_failed"}
              => tasks[id].stores[tasks[id].idx].enabled
    /\ \A session \in db_sessions :
          \A r \in db_stores : r.id = session.store_id => r.enabled

----------------------------------------------------------------------------
(* _parse_availability_and_date on the availability texts of a page *)

\* str.lower() on the capital letters of the availability texts.
LowerChar(c) ==
    CASE c = "A" -> "a"
      [] c = "F" -> "f"
      [] c = "N" -> "n"
      [] OTHER -> c

LowerText(text) == [i \in DOMAIN text |-> LowerChar(text[i])]

\* needle in text
Contains(text, needle) ==
    \E i \in 1 .. (Len(text) - Len(needle) + 1) :
        SubSeq(text, i, i + Len(needle) - 1) = needle

\* 'nicht verfügbar', 'ausverkauft', 'vergriffen', 'nicht lieferbar'
unavailable_indicators ==
    { <<"n", "i", "c", "h", "t", " ", "v", "e", "r", "f", "ü", "g", "b", "a", "r">>,
      <<"a", "u", "s", "v", "e", "r", "k", "a", "u", "f", "t">>,
      <<"v", "e", "r", "g", "r", "i", "f", "f", "e", "n">>,
      <<"n", "i", "c", "h", "t", " ", "l", "i", "e", "f", "e", "r", "b", "a", "r">> }

\* A date, as datetime(year, month, day) holds it.
Date(year, month, day) == [year |-> year, month |-> month, day |-> day]

IsLeap(year) == (year % 4 = 0 /\ year % 100 # 0) \/ year % 400 = 0

DaysInMonth(year, month) ==
    IF month = 2 THEN (IF IsLeap(year) THEN 29 ELSE 28)
    ELSE IF month \in {4, 6, 9, 11} THEN 30
    ELSE 31

\* datetime(year, month, day) does not raise ValueError.
ValidDate(year, month, day) ==
    /\ year \in 1 .. 9999
    /\ month \in 1 .. 12
    /\ day \in 1 .. DaysInMonth(year, month)

RECURSIVE DayOfYear(_, _, _)
\* The number of the day in its year.
DayOfYear(year, month, day) ==
    IF month = 1 THEN day
    ELSE DaysInMonth(year, month - 1) + DayOfYear(year, month - 1, day)

\* a < b on dates
Before(a, b) ==
    \/ a.year < b.year
    \/ a.year = b.year /\ a.month < b.month
    \/ a.year = b.year /\ a.month = b.month /\ a.day < b.day

\* The match of (\d{1,2})\.(\d{1,2})\. at position i, followed by (\d{4}) if
\* with_year: its groups and its last position, or None.
DateMatch(text, i, with_year) ==
    LET a == Min2(2, DigitRun(text, i))
        j == i + a + 1
        b == Min2(2, DigitRun(text, j))
        k == j + b + 1
    IN  IF /\ a >= 1 /\ j - 1 <= Len(text) /\ text[j - 1] = "."
           /\ b >= 1 /\ k - 1 <= Len(text) /\ text[k - 1] = "."
           /\ with_year => DigitRun(text, k) >= 4
        THEN Some([ day |-> DigitsValue(SubSeq(text, i, i + a - 1)),
                    month |-> DigitsValue(SubSeq(text, j, j + b - 1)),
                    year |-> IF with_year THEN DigitsValue(SubSeq(text, k, k + 3)) ELSE 0,
                    end |-> IF with_year THEN k + 3 ELSE k - 1 ])
        ELSE None

RECURSIVE FindAllDates(_, _, _)
\* re.findall of the date pattern from position i on: the matches, left to
\* right, none overlapping another.
FindAllDates(text, i, with_year) ==
    IF i > Len(text)
    THEN << >>
    ELSE LET match == DateMatch(text, i, with_year)
         IN  IF match = None
             THEN FindAllDates(text, i + 1, with_year)
             ELSE <<match[1]>> \o FindAllDates(text, match[1].end + 1, with_year)

\* The year a match of DD.MM. is read with: the next year if the date is
\* more than 30 days past in the current year.
AssumedYear(match, today) ==
    IF ValidDate(today.year, match.month, match.day)
    THEN IF DayOfYear(today.year, today.month, today.day)
              - DayOfYear(today.year, match.month, match.day) > 30
         THEN today.year + 1
         ELSE today.year
    ELSE today.year

\* dates_found: the dates of the matches of both patterns that are dates.
DatesFound(text, today) ==
    LET full == FindAllDates(text, 1, TRUE)
        short == FindAllDates(text, 1, FALSE)
    IN  { Date(full[n].year, full[n].month, full[n].day) :
            n \in {l \in DOMAIN full :
                     ValidDate(full[l].year, full[l].month, full[l].day)} }
        \cup
        { Date(AssumedYear(short[n], today), short[n].month, short[n].day) :
            n \in {l \in DOMAIN short :
                     ValidDate(AssumedYear(short[l], today), short[l].month, short[l].day)} }

\* max(dates_found)
LatestDate(dates_found) ==
    CHOOSE d \in dates_found : \A e \in dates_found : ~Before(d, e)

\* _parse_availability_and_date without the test of a date in the past.
parse_availability_and_date_keywords_only(availability_text, today) ==
    IF availability_text = << >>
    THEN [is_available |-> TRUE, availability_text |-> None, valid_until |-> None]
    ELSE LET text == Strip(availability_text)
             dates_found == DatesFound(text, today)
         IN  [ is_available |->
                   ~\E indicator \in unavailable_indicators :
                        Contains(LowerText(text), indicator),
               availability_text |-> Some(text),
               valid_until |-> IF dates_found = {} THEN None
                               ELSE Some(LatestDate(dates_found)) ]

\* _parse_availability_and_date of the Lidl and the Aldi crawler, today being
\* datetime.now().date(); valid_until is the date strftime writes.
parse_availability_and_date(availability_text, today) ==
    IF availability_text = << >>
    THEN [is_available |-> TRUE, availability_text |-> None, valid_until |-> None]
    ELSE LET text == Strip(availability_text)
             dates_found == DatesFound(text, today)
         IN  [ is_available |->
                   /\ ~\E indicator \in unavailable_indicators :
                          Contains(LowerText(text), indicator)
                   /\ ~(dates_found # {} /\ Before(LatestDate(dates_found), today)),
               availability_text |-> Some(text),
               valid_until |-> IF dates_found = {} THEN None
                               ELSE Some(LatestDate(dates_found)) ]

\* The pieces of the availability texts.
Fragments ==
    { <<"A", "u", "s", "v", "e", "r", "k", "a", "u", "f", "t", " ">>,
      <<"n", "i", "c", "h", "t", " ", "l", "i", "e", "f", "e", "r", "b", "a", "r", " ">>,
      <<"N", "u", "r", " ", "i", "n", " ", "d", "e", "r", " ", "F", "i", "l", "i", "a", "l", "e", " ">>,
      <<"b", "i", "s", " ">>,
      <<"0", "7", ".", "0", "7", ".", " ">>,
      <<"1", "2", ".", "0", "7", ".", " ">>,
      <<"2", "0", ".", "1", "2", ".", " ">>,
      <<"3", "1", ".", "0", "2", ".", " ">>,
      <<"0", "5", ".", "0", "6", ".", "2", "0", "2", "5", " ">>,
      <<"2", "4", ".", "1", "2", ".", "2", "0", "2", "5", " ">>,
      <<"0", "1", ".", "0", "1", ".", "2", "0", "2", "0", " ">>,
      <<" ">> }

RECURSIVE TextsOf(_)
\* The texts of up to n pieces.
TextsOf(n) ==
    IF n = 0 THEN {<< >>}
    ELSE TextsOf(n - 1) \cup {t \o f : t \in TextsOf(n - 1), f \in Fragments}

AvailabilityTexts == TextsOf(MaxFragments)

\* The days the crawler runs on.
Todays == {Date(2025, 7, 10), Date(2025, 1, 15), Date(2024, 2, 29)}

InitAvailability ==
    /\ active_crawls = << >>
    /\ completed_crawls = << >>
    /\ last_crawl_attempts = << >>
    /\ now = 0
    /\ next_id = 1
    /\ ret \in {[op |-> "availability_text", text |-> t, today |-> d, result |-> None] :
                   t \in AvailabilityTexts, d \in Todays}
    /\ tasks = << >>
    /\ db_stores = {}
    /\ db_sessions = {}
    /\ db_products = {}

\* A crawler parses the availability text of a container.
ParseAvailability ==
    /\ ret.op = "availability_text"
    /\ ret' = [ret EXCEPT !.op = "_parse_availability_and_date",
                          !.result = Some(parse_availability_and_date(ret.text, ret.today))]
    /\ UNCHANGED <<tracker_vars, now, next_id, system_vars>>

NextAvailability == ParseAvailability

SpecAvailability == InitAvailability /\ [][NextAvailability]_vars

\* The text holds one of the negative keywords, in any case of letters.
HasNegativeKeyword(text) ==
    \E indicator \in unavailable_indicators : Contains(LowerText(text), indicator)

\* C18: _parse_availability_and_date returns available = true exactly when the
\* text holds no negative keyword and the valid_until it computes is absent or
\* not before today; the empty text gives (true, no valid_until).
C18_AvailableUnlessKeywordOrExpired ==
    ret.op = "_parse_availability_and_date" =>
        LET result == ret.result[1]
        IN  /\ result.is_available <=>
                   /\ ~HasNegativeKeyword(ret.text)
                   /\ \/ result.valid_until = None
                      \/ ~Before(result.valid_until[1], ret.today)
            /\ ret.text = << >> =>
                   result.is_available /\ result.valid_until = None

\* C18, its case: a text without a negative keyword whose latest date is
\* before today was parsed as not available.
C18_Witness ==
    /\ ret.op = "_parse_availability_and_date"
    /\ ~HasNegativeKeyword(ret.text)
    /\ ret.result[1].valid_until # None
    /\ Before(ret.result[1].valid_until[1], ret.today)
    /\ ~ret.result[1].is_available

----------------------------------------------------------------------------
(* update_crawl_progress with any values a caller can pass *)

\* Keyword arguments of update_crawl_progress: a step text that is empty, counts
\* that are 0, percentages below 0 and above 100, next to ordinary ones.
ProgressInputs ==
    { [current_step |-> ""],
      [current_step |-> "Crawling", products_found |-> 3],
      [products_found |-> 0],
      [status |-> CRAWLING, progress_percentage |-> 60],
      [progress_percentage |-> 150],
      [progress_percentage |-> 0 - 5] }

NextUpdate ==
    \/ \E s \in StoreNames : StartCrawl(s)
    \/ \E id \in KnownIds, args \in ProgressInputs : UpdateProgress(id, args)
    \/ \E id \in KnownIds, a \in CompleteInputs : Complete(id, a)
    \/ \E id \in KnownIds, reason \in CancelReasons : Cancel(id, reason)

SpecUpdate == InitTracker /\ [][NextUpdate]_vars

\* The value a field holds once it was supplied: the percentage within 0..100,
\* any other value as passed.
Supplied(args, field) ==
    IF field = "progress_percentage"
    THEN Min2(100, Max2(0, args.progress_percentage))
    ELSE args[field]

\* C19: a successful update_crawl_progress on an active crawl sets exactly the
\* fields that were supplied, an empty step text and a count of 0 included, and
\* leaves the crawl's other fields, the other crawls, the history and the
\* times of the last attempts as they were.
C19_UpdateChangesWhatWasSupplied ==
    [][\A id \in KnownIds, args \in ProgressInputs :
          (UpdateProgress(id, args) /\ id \in DOMAIN active_crawls) =>
              /\ DOMAIN active_crawls' = DOMAIN active_crawls
              /\ \A field \in DOMAIN args :
                     active_crawls'[id][field] = Supplied(args, field)
              /\ \A field \in DOMAIN active_crawls[id] \ DOMAIN args :
                     active_crawls'[id][field] = active_crawls[id][field]
              /\ \A other \in DOMAIN active_crawls \ {id} :
                     active_crawls'[other] = active_crawls[other]
              /\ UNCHANGED <<completed_crawls, last_crawl_attempts>>]_vars

\* C20: every crawl the tracker holds, active or in the history, has a
\* progress_percentage within 0..100, whatever percentages were passed.
C20_PercentWithinRange ==
    \A crawl \in AllCrawls : crawl.progress_percentage \in 0 .. 100

\* C20, its case: an update has left an active crawl at 100, which only a
\* percentage above 100 does, next to an active crawl at 0 and a finished one.
C20_Witness ==
    /\ ret.op = "update_crawl_progress"
    /\ \E id \in DOMAIN active_crawls :
           /\ active_crawls[id].progress_percentage = 100
           /\ active_crawls[id].status = CRAWLING
    /\ completed_crawls # << >>

----------------------------------------------------------------------------
(* Calls the tracker rejects *)

\* C21: a start_crawl rejected as RateLimited or AlreadyRunning hands its
\* caller an error, creates no crawl and leaves the active crawls, the history
\* and the times of the last attempts as they were; update_crawl_progress on a
\* crawl id that is not active reports failure and changes nothing.
C21_RejectionChangesNothing ==
    [][/\ \A s \in StoreNames :
              (/\ StartCrawl(s)
               /\ \/ is_rate_limited(last_crawl_attempts, s, now)
                  \/ is_already_crawled(active_crawls, s)) =>
                  /\ ~ret'.ok
                  /\ ret'.error \in {"rate_limited", "already_running"}
                  /\ ret'.crawl_id = None
                  /\ UNCHANGED <<tracker_vars, next_id>>
       /\ \A id \in KnownIds, args \in UpdateInputs :
              (UpdateProgress(id, args) /\ id \notin DOMAIN active_crawls) =>
                  /\ ~ret'.ok
                  /\ UNCHANGED <<tracker_vars, next_id>>]_vars

\* C21, its case: a start was rejected as AlreadyRunning, the window of the
\* store's last attempt being over and its crawl still at work.
C21_Witness ==
    /\ ret.op = "start_crawl"
    /\ ~ret.ok
    /\ ret.error = "already_running"
    /\ now - last_crawl_attempts[ret.store_name] >= min_crawl_interval
    /\ \E id \in ActiveOf(ret.store_name) :
           active_crawls[id].status \in {CRAWLING, PROCESSING}

----------------------------------------------------------------------------
(* _ensure_store_exists on the tables a crawl can find *)

\* Table stores before a crawl: at most one row of each name a crawler is
\* registered for, enabled or not, with any ids.
StoreTables ==
    LET Rows(name) == { [StoreRow(id, name) EXCEPT !.enabled = e] :
                            id \in 1 .. MaxStoreId, e \in BOOLEAN }
    IN  { t \in UNION { {{}}, {{l} : l \in Rows("Lidl")}, {{a} : a \in Rows("Aldi")},
                        {{l, a} : l \in Rows("Lidl"), a \in Rows("Aldi")} } :
            \A r, q \in t : r.id = q.id => r = q }

InitEnsure ==
    /\ active_crawls = << >>
    /\ completed_crawls = << >>
    /\ last_crawl_attempts = << >>
    /\ now = 0
    /\ next_id = 1
    /\ ret \in {[op |-> "store_name", store_name |-> s, before |-> {}, result |-> None] :
                   s \in StoreNames \cup UnknownStores}
    /\ tasks = << >>
    /\ db_stores \in StoreTables
    /\ db_sessions = {}
    /\ db_products = {}

\* crawl_store resolves its store.
EnsureStore ==
    /\ ret.op = "store_name"
    /\ LET result == ensure_store_exists(db_stores, ret.store_name)
       IN  /\ ret' = [ret EXCEPT !.op = "_ensure_store_exists",
                                 !.before = db_stores,
                                 !.result = Some(result)]
           /\ db_stores' = result.stores
    /\ UNCHANGED <<tracker_vars, now, next_id, tasks, db_sessions, db_products>>

NextEnsure == EnsureStore

SpecEnsure == InitEnsure /\ [][NextEnsure]_vars

----------------------------------------------------------------------------
(* Ageing out the catalog *)

\* The rows of a store that are not soft-deleted and older than seven days.
StaleProducts(products, store_name, t) ==
    { r \in products :
        /\ \E s \in db_stores : s.name = store_name /\ s.id = r.store_id
        /\ r.deleted_at = None
        /\ r.created_at < t - SevenDays }

\* C23: when a crawl whose stores all went through processing ends COMPLETED,
\* no row of these stores that is not soft-deleted is older than seven days,
\* also when the crawler handed back no products.
C23_CompletedCrawlAgesOut ==
    [][\A id \in DOMAIN tasks :
          (/\ Finish(id)
           /\ id \in DOMAIN active_crawls
           /\ Totals(tasks[id].results, 1).all_successful) =>
              \A i \in DOMAIN tasks[id].results :
                  StaleProducts(db_products', tasks[id].results[i].store, now) = {}]_vars

----------------------------------------------------------------------------
(* _scroll_down_thoroughly: the first phase of the scroll strategy *)

\* scroll_step: the pixels of one window.scrollBy.
scroll_step == 300

\* The values document.body.scrollHeight may have, 0 for an empty body.
PageHeights == {scroll_step * k : k \in 0 .. MaxHeight}

\* The locals of _scroll_down_thoroughly before its loop; i counts the rounds
\* done, sampled keeps previous_height's first value and the heights read in
\* the last rounds, scroll_to counts the calls of window.scrollTo.
ScrollLocals ==
    [ op |-> "_scroll_down_thoroughly", pc |-> "loop", i |-> 0,
      previous_height |-> 0, no_change_count |-> 0, broke |-> FALSE,
      sampled |-> <<0>>, scroll_to |-> 0 ]

\* The last n entries of a sequence.
LastOf(seq, n) == IF Len(seq) <= n THEN seq ELSE SubSeq(seq, Len(seq) - n + 1, Len(seq))

\* One round of the loop that counts every round without a change, whether
\* or not a change lies between them.
scroll_round_never_resets(locals, current_height) ==
    LET unchanged == current_height = locals.previous_height
        count == IF unchanged THEN locals.no_change_count + 1 ELSE locals.no_change_count
        stop == unchanged /\ count >= 3
    IN  [ locals EXCEPT
            !.i = @ + 1,
            !.no_change_count = count,
            !.broke = stop,
            !.previous_height = IF stop THEN @ ELSE current_height,
            !.sampled = LastOf(Append(@, current_height), 4),
            !.pc = IF stop \/ locals.i + 1 = max_scrolls THEN "bottom" ELSE "loop" ]

\* One round of the loop "for i in range(max_scrolls)" with the height the
\* page reports after the scroll: the break after three rounds without a
\* change, else the next round or the end of the range.
scroll_round(locals, current_height) ==
    LET unchanged == current_height = locals.previous_height
        count == IF unchanged THEN locals.no_change_count + 1 ELSE 0
        stop == unchanged /\ count >= 3
    IN  [ locals EXCEPT
            !.i = @ + 1,
            !.no_change_count = count,
            !.broke = stop,
            !.previous_height = IF stop THEN @ ELSE current_height,
            !.sampled = LastOf(Append(@, current_height), 4),
            !.pc = IF stop \/ locals.i + 1 = max_scrolls THEN "bottom" ELSE "loop" ]

InitScroll ==
    /\ active_crawls = << >>
    /\ completed_crawls = << >>
    /\ last_crawl_attempts = << >>
    /\ now = 0
    /\ next_id = 1
    /\ ret = ScrollLocals
    /\ tasks = << >>
    /\ db_stores = {}
    /\ db_sessions = {}
    /\ db_products = {}

\* window.scrollBy, the wait, and the page's answer to scrollHeight.
ScrollRound(current_height) ==
    /\ ret.pc = "loop"
    /\ ret' = scroll_round(ret, current_height)
    /\ UNCHANGED <<tracker_vars, now, next_id, system_vars>>

\* "Ganz nach unten scrollen": window.scrollTo and the last wait.
ScrollToBottom ==
    /\ ret.pc = "bottom"
    /\ ret' = [ret EXCEPT !.pc = "done", !.scroll_to = @ + 1]
    /\ UNCHANGED <<tracker_vars, now, next_id, system_vars>>

\* A call of the page raises (the page was closed): "except Exception" logs
\* the error and the method returns.
ScrollRaises ==
    /\ ret.pc \in {"loop", "bottom"}
    /\ ret' = [ret EXCEPT !.pc = "error"]
    /\ UNCHANGED <<tracker_vars, now, next_id, system_vars>>

NextScroll ==
    \/ \E current_height \in PageHeights : ScrollRound(current_height)
    \/ ScrollToBottom
    \/ ScrollRaises

\* Every call of the page returns or raises.
SpecScroll == InitScroll /\ [][NextScroll]_vars /\ WF_vars(NextScroll)

\* The heights read in the last three rounds each equal the height before.
ThreeUnchanged(sampled) ==
    Len(sampled) = 4 /\ \A k \in 1 .. 3 : sampled[k + 1] = sampled[k]

\* C24: _scroll_down_thoroughly ends, whatever heights the page reports; it
\* does at most max_scrolls rounds, leaves the loop before the end of the
\* range exactly after three rounds in a row in which the height read equals
\* the one before, and then scrolls to the bottom once.
C24_ScrollDownEnds ==
    /\ <>(ret.pc \in {"done", "error"})
    /\ [](ret.i <= max_scrolls)
    /\ [](ret.pc = "loop" => ~ThreeUnchanged(ret.sampled) /\ ret.i < max_scrolls)
    /\ [](ret.pc \in {"bottom", "done"} =>
             /\ ret.broke <=> ThreeUnchanged(ret.sampled)
             /\ ~ret.broke => ret.i = max_scrolls)
    /\ [](ret.scroll_to = IF ret.pc = "done" THEN 1 ELSE 0)

\* C24, its case: the height changed for some rounds and then stayed, the
\* loop was left before the end of the range and the page is at the bottom.
C24_Witness ==
    /\ ret.pc = "done"
    /\ ret.broke
    /\ ret.i > 4
    /\ ret.i < max_scrolls
    /\ ret.sampled[1] # 0
    /\ ret.scroll_to = 1

----------------------------------------------------------------------------
(* Queries of the tracker *)

\* seq[start:] of Python for a start index of either sign.
SliceFrom(seq, start) ==
    LET first == IF start < 0 THEN Max2(Len(seq) + start, 0) ELSE Min2(start, Len(seq))
    IN  SubSeq(seq, first + 1, Len(seq))

\* get_crawl_history(limit): self._completed_crawls[-limit:]
get_crawl_history(cc, limit) == SliceFrom(cc, 0 - limit)

\* GET of the history with a limit.
GetHistory(limit) ==
    /\ ret' = [op |-> "get_crawl_history", limit |-> limit,
               result |-> get_crawl_history(completed_crawls, limit)]
    /\ UNCHANGED <<tracker_vars, now, next_id, system_vars>>

NextQuery ==
    \/ \E s \in StoreNames : StartCrawl(s)
    \/ \E id \in KnownIds, a \in CompleteInputs : Complete(id, a)
    \/ \E id \in KnownIds, reason \in CancelReasons : Cancel(id, reason)
    \/ \E limit \in 0 .. MaxLimit : GetHistory(limit)
    \/ Tick

SpecQuery == InitTracker /\ [][NextQuery]_vars

\* C25: get_crawl_history(limit) returns at most limit crawls for every
\* limit >= 0, and they are the crawls that ended last, in the order in which
\* they ended; with limit 0 it returns none.
C25_HistoryReturnsLastLimit ==
    ret.op = "get_crawl_history" =>
        LET n == Min2(ret.limit, Len(completed_crawls))
        IN  /\ Len(ret.result) <= ret.limit
            /\ ret.result = SubSeq(completed_crawls,
                                   Len(completed_crawls) - n + 1, Len(completed_crawls))

----------------------------------------------------------------------------
(* The admin router of the app: its background task *)

\* The attributes of the object crawl_status_service, an instance of
\* CrawlStatusService: the fields of __init__ and the methods of the class.
CrawlStatusServiceAttributes ==
    { "_active_crawls", "_completed_crawls", "_max_completed_history",
      "_last_crawl_attempts", "_min_crawl_interval", "start_crawl",
      "update_crawl_progress", "complete_crawl", "get_crawl_status",
      "get_active_crawls", "get_crawl_history", "get_store_status",
      "get_system_overview", "cancel_crawl", "_is_rate_limited", "cleanup_old_data" }

\* crawl_status_service.<name> does not raise AttributeError.
HasAttribute(name) == name \in CrawlStatusServiceAttributes

\* _enhanced_trigger_crawl of app/routers/admin.py: its first statement reads
\* crawl_status_service.CrawlStatus.INITIALIZING, and so does the call of
\* complete_crawl in its handler "except Exception"; an AttributeError raised
\* in the handler ends the task.  What follows the first statement runs only
\* if the attribute is there.
AppEnhancedTriggerCrawl(crawl_id) ==
    LET task == tasks[crawl_id]
    IN  /\ task.pc = "begin"
        /\ IF HasAttribute("CrawlStatus")
           THEN /\ active_crawls' = update_crawl_progress(active_crawls, crawl_id,
                       [status |-> INITIALIZING,
                        current_step |-> "Initializing crawl session"])
                /\ tasks' = [tasks EXCEPT ![crawl_id] = [@ EXCEPT !.pc = "trigger_crawl_now"]]
                /\ UNCHANGED completed_crawls
           ELSE IF HasAttribute("CrawlStatus")
           THEN TaskFails(crawl_id, active_crawls,
                          "'CrawlStatusService' object has no attribute 'CrawlStatus'")
           ELSE /\ tasks' = [tasks EXCEPT ![crawl_id] = Done(@)]
                /\ UNCHANGED <<active_crawls, completed_crawls>>
        /\ UNCHANGED <<last_crawl_attempts, now, next_id, ret,
                       db_stores, db_sessions, db_products>>

NextApp ==
    \/ \E store_name \in TriggerStores : TriggerCrawl(store_name)
    \/ \E id \in DOMAIN tasks : AppEnhancedTriggerCrawl(id)
    \/ \E id \in DOMAIN active_crawls, reason \in CancelReasons : CancelCrawl(id, reason)
    \/ TickIdle

\* A background task that was added runs: each of its steps is taken.
SpecApp ==
    /\ Init
    /\ [][NextApp]_vars
    /\ WF_vars(\E id \in DOMAIN tasks : AppEnhancedTriggerCrawl(id))

\* The crawl is in the history with a status of the end.
Ended(crawl_id) ==
    /\ crawl_id \notin DOMAIN active_crawls
    /\ \E i \in DOMAIN completed_crawls :
           /\ completed_crawls[i].crawl_id = crawl_id
           /\ completed_crawls[i].status \in TerminalStatus

\* C26: every crawl a trigger has started is at some time out of the active
\* crawls and in the history as COMPLETED, FAILED or CANCELLED, whatever goes
\* wrong in its background task.
C26_EveryCrawlEnds ==
    \A crawl_id \in 1 .. MaxJobs :
        (crawl_id \in DOMAIN active_crawls) ~> Ended(crawl_id)

----------------------------------------------------------------------------
(* Crawls of one store at the same time *)

\* The task is inside crawl_all_products of the store's crawler.
Harvesting(crawl_id, store_name) ==
    /\ tasks[crawl_id].pc = "harvest"
    /\ tasks[crawl_id].stores[tasks[crawl_id].idx].name = store_name

\* C27: no store is inside crawl_all_products for two crawls at once, be they
\* crawls of that store or crawls of all stores.
C27_OneHarvestPerStore ==
    \A a, b \in DOMAIN tasks, store_name \in StoreNames :
        (Harvesting(a, store_name) /\ Harvesting(b, store_name)) => a = b

----------------------------------------------------------------------------
(* The two collections of the tracker *)

\* C28: under the calls of the background tasks and of the admin API, no
\* crawl id is among the active crawls and in the history at once, none is in
\* the history twice, every active crawl has a status that is not terminal
\* and every crawl in the history is COMPLETED, FAILED or CANCELLED.
C28_ActiveAndHistoryPartition ==
    /\ \A id \in DOMAIN active_crawls :
           /\ id \notin HistoryIds
           /\ active_crawls[id].crawl_id = id
           /\ active_crawls[id].status \notin TerminalStatus
    /\ \A i, j \in DOMAIN completed_crawls :
           completed_crawls[i].crawl_id = completed_crawls[j].crawl_id => i = j
    /\ \A i \in DOMAIN completed_crawls :
           completed_crawls[i].status \in TerminalStatus

\* C28, its case: a crawl that went through PROCESSING is in the history as
\* COMPLETED while another one is active and PROCESSING.
C28_Witness ==
    /\ \E i \in DOMAIN completed_crawls : completed_crawls[i].status = COMPLETED
    /\ \E id \in DOMAIN active_crawls : active_crawls[id].status = PROCESSING

----------------------------------------------------------------------------
(* The percentages of a crawl *)

\* The CrawlProgress of the crawl id after a step: the active one, or the
\* one in the history.
ProgressOf(ac, cc, crawl_id) ==
    IF crawl_id \in DOMAIN ac
    THEN ac[crawl_id]
    ELSE cc[CHOOSE i \in DOMAIN cc : cc[i].crawl_id = crawl_id]

\* C29: while a crawl of a single store runs, no step of its background task
\* and no call of the tracker lowers its progress_percentage, from start_crawl
\* to its place in the history, whatever the size of the batch.
C29_PercentNeverFalls ==
    [][\A id \in DOMAIN active_crawls :
          active_crawls[id].store_name # "all_stores" =>
              ProgressOf(active_crawls', completed_crawls', id).progress_percentage
                  >= active_crawls[id].progress_percentage]_vars

\* C29, its case: a crawl of a single store has gone through every
\* percentage the coordinator writes and is in the history at 100.
C29_Witness ==
    /\ \E i \in DOMAIN completed_crawls :
           /\ completed_crawls[i].store_name \in StoreNames
           /\ completed_crawls[i].status = COMPLETED
           /\ completed_crawls[i].products_found > 0
           /\ completed_crawls[i].errors_count > 0
           /\ completed_crawls[i].progress_percentage = 100

----------------------------------------------------------------------------
(* A date with its year in the availability text *)

\* The text holds one date, written as DD.MM.YYYY, and nothing else that
\* reads as a date: the only match of DD.MM. is the start of that date.
OneDateWithYear(text) ==
    LET full == FindAllDates(text, 1, TRUE)
        short == FindAllDates(text, 1, FALSE)
    IN  /\ Len(full) = 1
        /\ ValidDate(full[1].year, full[1].month, full[1].day)
        /\ Len(short) = 1
        /\ short[1].end = full[1].end - 4

\* C30: for a text with one date, written with its year, valid_until of
\* _parse_availability_and_date is that date, and the offer is not available
\* when the date is before today.
C30_ExplicitYearIsKept ==
    (ret.op = "_parse_availability_and_date" /\ OneDateWithYear(Strip(ret.text))) =>
        LET written == FindAllDates(Strip(ret.text), 1, TRUE)[1]
            date == Date(written.year, written.month, written.day)
        IN  /\ ret.result[1].valid_until = Some(date)
            /\ Before(date, ret.today) => ~ret.result[1].is_available

====
